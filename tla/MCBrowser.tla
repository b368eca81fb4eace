----------------------------- MODULE MCBrowser -----------------------------
(***************************************************************************)
(* A small browser: one tab with two calls in flight.  Sessions differ by  *)
(* the lifetime and the seeding they belong to, so one person is enough to *)
(* tell them apart; BrowserProofs lets anyone log in.                      *)
(***************************************************************************)
EXTENDS AssetPages

MCPages == {1, 2}

=============================================================================
