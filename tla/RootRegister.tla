---------------------------- MODULE RootRegister ----------------------------
(***************************************************************************)
(* What chunk.Store promises of its root (src/core/chunk/port.go): one     *)
(* register that CompareAndSetRoot calls move, each at most once and only  *)
(* from the root it expects.                                               *)
(***************************************************************************)
CONSTANTS Root, Client, InitRoot, NoCall

VARIABLES root, call   \* call[c]: client c's call in progress, or NoCall

vars == <<root, call>>

Init == root = InitRoot /\ call = [c \in Client |-> NoCall]

Call(c) ==
  /\ call[c] = NoCall
  /\ \E e, n \in Root : call' = [call EXCEPT ![c] = <<e, n>>]
  /\ UNCHANGED root

\* The call takes effect and ends.
Land(c) ==
  /\ call[c] # NoCall
  /\ root = call[c][1]
  /\ root' = call[c][2]
  /\ call' = [call EXCEPT ![c] = NoCall]

\* Calls end without effect: refused, or cut short by a crash, which ends
\* every call of its process.
Fail(C) ==
  /\ C # {} /\ \A c \in C : call[c] # NoCall
  /\ call' = [c \in Client |-> IF c \in C THEN NoCall ELSE call[c]]
  /\ UNCHANGED root

Next ==
  \/ \E c \in Client : Call(c) \/ Land(c)
  \/ \E C \in SUBSET Client : Fail(C)

Spec == Init /\ [][Next]_vars
==============================================================================
