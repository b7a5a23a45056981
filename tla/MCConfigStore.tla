---------------------------- MODULE MCConfigStore ----------------------------
(* Small instances of ConfigStore for TLC.                                 *)
EXTENDS ConfigStore, TLC

CONSTANTS plain, other, sealed, broken, moved, s1

Doc(valid, lists, static, secret) ==
  [valid |-> valid, lists |-> lists, static |-> static, secret |-> secret]

\* A plain text, one with other lists, one with credentials of its own, one that
\* does not parse and one with other listeners.
Documents ==
  (plain  :> Doc(TRUE, 1, 1, NoSecret)) @@ (other :> Doc(TRUE, 2, 1, NoSecret)) @@
  (sealed :> Doc(TRUE, 1, 1, s1)) @@ (broken :> Doc(FALSE, 1, 1, NoSecret)) @@
  (moved  :> Doc(TRUE, 1, 2, NoSecret))
==============================================================================
