---------------------------- MODULE MCAcmeOrder ----------------------------
(* Model-checking instance of AcmeOrder: two handles of one account, one   *)
(* authorization each (two in the loop run), three CA nonces.              *)
EXTENDS AcmeOrder, TLC

CONSTANTS h1, h2, a1, a2, n1, n2, n3

MCHandles == {h1, h2}
MCAuthzs == {a1}
MCNonces == {n1, n2, n3}

\* Liveness is per handle: one handle, two nonces, two authorizations
MCOneHandle == {h1}
MCTwoNonces == {n1, n2}
MCTwoAuthzs == {a1, a2}

\* Handles and nonces are interchangeable: no definition names one of them
Symmetry == Permutations(MCHandles) \cup Permutations(MCNonces)

=============================================================================
