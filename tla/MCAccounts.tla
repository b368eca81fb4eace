---- MODULE MCAccounts ----
(* A registration and a manager's creation for one email, next to a        *)
(* submission and either a login or a readiness probe.                     *)
EXTENDS Accounts

MCMayAsk == [c \in Calls |-> CASE c = "r1" -> {"register"}
                               [] c = "c1" -> {"create"}
                               [] c = "s1" -> {"submit"}
                               [] OTHER -> {"login", "ready"}]
MCEmailOf == [c \in Calls |-> "ann"]
MCKnown == {"root"}
====
