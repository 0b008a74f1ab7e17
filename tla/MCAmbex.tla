------------------------------ MODULE MCAmbex ------------------------------
(***************************************************************************)
(* A small instance of Ambex: the first configuration on disk does not go  *)
(* with the second fastpath snapshot.                                      *)
(***************************************************************************)
EXTENDS Ambex

Clash == {<<1, 2>>}
=============================================================================
