----------------------------- MODULE FleetTables ----------------------------
(***************************************************************************)
(* The tables of AssetLifecycle with everyone who uses them: the handlers, *)
(* the seed script and the reading handlers.  Who reads does not write,    *)
(* and of the two who write the script locks the handlers out.             *)
(***************************************************************************)
EXTENDS DemoSeed, FleetReads

\* The old fleet starts with every asset handed out.
FleetInit == Init /\ (\A a \in Assets : status[a] = "in_use") /\ SeedInit /\ ReadsInit
FleetNext ==
    \/ HandlerNext /\ UNCHANGED reader
    \/ SeedNext /\ UNCHANGED reader
    \/ ReadsNext /\ UNCHANGED <<vars, seedVars>>
FleetSpec == FleetInit /\ [][FleetNext]_<<vars, seedVars, reader>>

=============================================================================
