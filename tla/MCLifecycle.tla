----------------------------- MODULE MCLifecycle -----------------------------
EXTENDS LifecycleInvariant, TLC
Sym == Permutations(Runner) \union Permutations(Session) \union Permutations(App)
=============================================================================
