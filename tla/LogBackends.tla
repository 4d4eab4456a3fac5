---------------------------- MODULE LogBackends ----------------------------
(***************************************************************************)
(* pkg/store/registry.go: the log an application picks by name.  The engine   *)
(* sees a store.Log and relies on what LogSpec says of it, whichever it is.    *)
(***************************************************************************)
EXTENDS WAL, Slipstream

VARIABLE backend

backendVars == <<vars, dbVars, backend>>

BackendsInit == Init /\ DbInit /\ backend \in {"wal", "slipstream"}

BackendsNext ==
  \/ backend = "wal" /\ Next /\ UNCHANGED <<dbVars, backend>>
  \/ backend = "slipstream" /\ DbNext /\ UNCHANGED <<vars, backend>>

\* A running Append and a running Replay of the file go on.
BackendsSpec == /\ BackendsInit /\ [][BackendsNext]_backendVars
                /\ WF_vars(WritePayload \/ FinishAppend) /\ WF_vars(ReadRecord)

-----------------------------------------------------------------------------
LogOf == INSTANCE LogSpec
           WITH Entry    <- 1 .. MaxAppends + MaxTx,
                entries  <- IF backend = "wal" THEN WalEntries ELSE DbEntries,
                promised <- IF backend = "wal" THEN WalPromised ELSE dbAcked

(***************************************************************************)
(* README: two backends satisfy the same store.Log interface.  Either grows   *)
(* by one record at its end, and loses at its end what it has not promised:    *)
(* with the file until Append or Flush has synced, with the database until     *)
(* the transaction is committed.  The file is a log up to the first record     *)
(* that broke off.                                                          *)
(***************************************************************************)
ChosenBackendIsALog == LogOf!PromiseSpec
=============================================================================
