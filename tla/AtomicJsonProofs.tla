--------------------------- MODULE AtomicJsonProofs ---------------------------
(***************************************************************************)
(* Write-LocalYarnJson implements a register for any number of calls, as   *)
(* long as File.Replace does not fail between its two moves.               *)
(***************************************************************************)
EXTENDS AtomicJson, TLAPS

\* File.Replace moves both files or none, unless the process is killed.
ReplaceSound == "unmoved" \notin Faults

\* No history and no file exists before the first call.
LEMMA InitInvariant == Init => IInv
BY ContentAssumption
   DEF Init, IInv, TypeOK, NeverTorn, PlacesOwn, OnlyCopySafe, Content, Step

\* No step of Write-LocalYarnJson, and no kill, breaks the invariant.
LEMMA NextInvariant ==
    ASSUME ReplaceSound, IInv, [Next]_vars
    PROVE  IInv'
<1> USE ContentAssumption DEF ReplaceSound, IInv, TypeOK, NeverTorn,
        PlacesOwn, OnlyCopySafe, Content, Step, Goto
<1>1. ASSUME NEW c \in Call, Open(c) PROVE IInv'
      BY <1>1 DEF Open
<1>2. ASSUME NEW c \in Call, WriteAllText(c) PROVE IInv'
      BY <1>2 DEF WriteAllText
<1>3. ASSUME NEW c \in Call, TestPath(c) PROVE IInv'
      BY <1>3 DEF TestPath
<1>4. ASSUME NEW c \in Call, Move(c) PROVE IInv'
      BY <1>4 DEF Move, Place
<1>5. ASSUME NEW c \in Call, ReplaceOld(c) PROVE IInv'
      BY <1>5 DEF ReplaceOld
<1>6. ASSUME NEW c \in Call, ReplaceNew(c) PROVE IInv'
      BY <1>6 DEF ReplaceNew, Place
<1>7. ASSUME NEW c \in Call, Finally(c) PROVE IInv'
      BY <1>7 DEF Finally
<1>8. ASSUME NEW c \in Call, Crash(c) PROVE IInv'
      BY <1>8 DEF Crash
<1>9. CASE UNCHANGED vars
      BY <1>9 DEF vars
<1> QED
    BY <1>1, <1>2, <1>3, <1>4, <1>5, <1>6, <1>7, <1>8, <1>9 DEF Next

\* What a call may place is its own document, and the only copy of a document
\* lies with a call that has not come to its finally block.
THEOREM Invariant == ASSUME ReplaceSound PROVE Spec => []IInv
<1>1. IInv /\ [Next]_vars => IInv'
      BY NextInvariant
<1> QED
    BY <1>1, InitInvariant, PTL DEF Spec

\* Nobody ever reads an unfinished document.
THEOREM NotTorn == ASSUME ReplaceSound PROVE Spec => []NeverTorn
<1>1. IInv => NeverTorn
      BY DEF IInv
<1> QED
    BY <1>1, Invariant, PTL

\* A document that was written is still there when every call has ended
\* without being killed: no call deletes the only copy of another's document.
THEOREM DocumentStays == ASSUME ReplaceSound PROVE Spec => []DocumentKept
<1>1. IInv => DocumentKept
  <2> SUFFICES ASSUME IInv, applied # {}, \A c \in Call : pc[c] \in {"idle", "done"},
                      doc = Absent
               PROVE  FALSE
      BY DEF DocumentKept
  <2>1. moved \in Call
      BY DEF IInv, TypeOK, OnlyCopySafe
  <2> QED
      BY <2>1 DEF IInv, OnlyCopySafe
<1> QED
    BY <1>1, Invariant, PTL

\* A call that was not killed has removed its temporary file and its backup,
\* on every path through Write-LocalYarnJson and whatever File.Replace did.
THEOREM NothingLeft == Spec => []LeavesNothing
<1> DEFINE Inv == TypeOK /\ LeavesNothing
<1>1. Init => Inv
      BY DEF Init, TypeOK, LeavesNothing, Content, Step
<1>2. Inv /\ [Next]_vars => Inv'
  <2> SUFFICES ASSUME Inv, [Next]_vars PROVE Inv'
      OBVIOUS
  <2> USE DEF TypeOK, LeavesNothing, Content, Step, Goto
  <2>1. ASSUME NEW c \in Call, Open(c) PROVE Inv'
      BY <2>1 DEF Open
  <2>2. ASSUME NEW c \in Call, WriteAllText(c) PROVE Inv'
      BY <2>2 DEF WriteAllText
  <2>3. ASSUME NEW c \in Call, TestPath(c) PROVE Inv'
      BY <2>3 DEF TestPath
  <2>4. ASSUME NEW c \in Call, Move(c) PROVE Inv'
      BY <2>4 DEF Move, Place
  <2>5. ASSUME NEW c \in Call, ReplaceOld(c) PROVE Inv'
      BY <2>5 DEF ReplaceOld
  <2>6. ASSUME NEW c \in Call, ReplaceNew(c) PROVE Inv'
      BY <2>6 DEF ReplaceNew, Place
  <2>7. ASSUME NEW c \in Call, Finally(c) PROVE Inv'
      BY <2>7 DEF Finally
  <2>8. ASSUME NEW c \in Call, Crash(c) PROVE Inv'
      BY <2>8 DEF Crash
  <2>9. CASE UNCHANGED vars
      BY <2>9 DEF vars
  <2> QED
      BY <2>1, <2>2, <2>3, <2>4, <2>5, <2>6, <2>7, <2>8, <2>9 DEF Next
<1> QED
    BY <1>1, <1>2, PTL DEF Spec

\* Every step is a write of the register by one call, or nothing.
LEMMA StepImplementsRegister ==
    ASSUME ReplaceSound, IInv, [Next]_vars
    PROVE  [Register!Next]_<<Newest, applied>>
<1> USE ContentAssumption DEF ReplaceSound, IInv, TypeOK, NeverTorn,
        PlacesOwn, OnlyCopySafe, Content, Step, Goto, Newest
<1> SUFFICES ASSUME ~ UNCHANGED <<Newest, applied>> PROVE Register!Next
    OBVIOUS
<1>1. ASSUME NEW c \in Call, Open(c) PROVE FALSE
      BY <1>1 DEF Open
<1>2. ASSUME NEW c \in Call, WriteAllText(c) PROVE FALSE
      BY <1>2 DEF WriteAllText
<1>3. ASSUME NEW c \in Call, TestPath(c) PROVE FALSE
      BY <1>3 DEF TestPath
<1>4. ASSUME NEW c \in Call, Move(c) PROVE Register!Apply(c)
      BY <1>4 DEF Move, Place, Register!Apply
<1>5. ASSUME NEW c \in Call, ReplaceOld(c) PROVE FALSE
      BY <1>5 DEF ReplaceOld
<1>6. ASSUME NEW c \in Call, ReplaceNew(c) PROVE Register!Apply(c)
      BY <1>6 DEF ReplaceNew, Place, Register!Apply
<1>7. ASSUME NEW c \in Call, Finally(c) PROVE FALSE
      BY <1>7 DEF Finally
<1>8. ASSUME NEW c \in Call, Crash(c) PROVE FALSE
      BY <1>8 DEF Crash
<1>9. CASE UNCHANGED vars
      BY <1>9 DEF vars
<1> QED
    BY <1>1, <1>2, <1>3, <1>4, <1>5, <1>6, <1>7, <1>8, <1>9
    DEF Next, Register!Next

\* Concurrent, failing and killed calls act on one register.
THEOREM RegisterImplemented == ASSUME ReplaceSound PROVE Spec => ImplementsRegister
<1>1. Init => Register!Init
      BY DEF Init, Register!Init, Newest
<1>2. IInv /\ [Next]_vars => [Register!Next]_<<Newest, applied>>
      BY StepImplementsRegister
<1> QED
    BY <1>1, <1>2, Invariant, PTL DEF Spec, ImplementsRegister, Register!Spec
=============================================================================
