-------------------------------- MODULE LsmClose --------------------------------
(***************************************************************************)
(* MiniLsm::close of src/lsm_storage.rs without a WAL: it notifies and     *)
(* joins the flush thread, then freezes and flushes what is left, under a  *)
(* read guard of the state that it keeps to the end.  The engine can be    *)
(* used while close runs and after it.                                     *)
(***************************************************************************)
EXTENDS LsmStorage

CONSTANT Closer   \* the thread calling close; it runs the code of a forcer

ASSUME CloserAssumption == Closer \in Forcers /\ Nil \notin States

VARIABLES
    close_pc,       \* where close is
    close_snapshot, \* close: snapshot
    notified,       \* a message is in flush_notifier's channel
    flush_stopped,  \* the flush thread has returned
    close_ts        \* the commit timestamp when close was called

closing == <<close_pc, close_snapshot, notified, flush_stopped, close_ts>>
closeVars == <<vars, closing>>

CloseInit ==
    /\ Init
    /\ close_pc = "open"
    /\ close_snapshot = Nil
    /\ notified = FALSE
    /\ flush_stopped = FALSE
    /\ close_ts = 0

(* close holds its read guard, and nobody gets the write guard.            *)
CloseGuardHeld == close_pc = "guarded"

-------------------------------------------------------------------------------
(* close                                                                   *)

(* Mutant: nothing is sent to the flush thread.                            *)
CloseNotifyNobody ==
    /\ close_pc = "open"
    /\ close_pc' = "join"
    /\ close_ts' = commit_ts
    /\ UNCHANGED <<vars, close_snapshot, notified, flush_stopped>>

CloseNotify ==
    /\ close_pc = "open"
    /\ close_pc' = "join"
    /\ notified' = TRUE
    /\ close_ts' = commit_ts
    /\ UNCHANGED <<vars, close_snapshot, flush_stopped>>

(* The flush thread takes the message between two ticks.                   *)
FlushThreadReturns ==
    /\ notified
    /\ ~ flush_stopped
    /\ pc[FlushThread] = "idle"
    /\ flush_stopped' = TRUE
    /\ UNCHANGED <<vars, close_pc, close_snapshot, notified, close_ts>>

Guard ==
    /\ close_pc' = "guarded"
    /\ close_snapshot' = state
    /\ Goto(Closer, IF memtables[state.memtable] # EmptyTable
                    THEN "freeze_lock" ELSE "idle")
    /\ UNCHANGED <<engine, mvcc, freeze, flush_id, reading, faults,
                   notified, flush_stopped, close_ts>>

(* Mutant: the handle is dropped, not joined.                              *)
CloseGuardUnjoined == close_pc = "join" /\ Guard

(* join returns when the thread has, or has panicked; then close takes its *)
(* guard, and freezes the memtable unless it is empty.                     *)
CloseGuard ==
    /\ close_pc = "join"
    /\ flush_stopped \/ pc[FlushThread] = "panicked"
    /\ Guard

(* Mutant: the immutable memtables are left to the next open.              *)
CloseReturnUnflushed ==
    /\ CloseGuardHeld
    /\ pc[Closer] = "idle"
    /\ close_pc' = "closed"
    /\ close_snapshot' = Nil
    /\ UNCHANGED <<vars, notified, flush_stopped, close_ts>>

CloseReturn ==
    /\ CloseGuardHeld
    /\ pc[Closer] = "idle"
    /\ close_snapshot.imm_memtables = <<>>
    /\ close_pc' = "closed"
    /\ close_snapshot' = Nil
    /\ UNCHANGED <<vars, notified, flush_stopped, close_ts>>

(* The loop asks the snapshot, which never changes, and not the state.     *)
CloseFlush ==
    /\ CloseGuardHeld
    /\ pc[Closer] = "idle"
    /\ close_snapshot.imm_memtables # <<>>
    /\ Goto(Closer, "flush_pick")
    /\ UNCHANGED <<engine, mvcc, freeze, flush_id, reading, faults, closing>>

-------------------------------------------------------------------------------
(* A step A of LsmStorage.  force_freeze_memtable and the flush behave in  *)
(* close as anywhere else; an error ends close.                            *)
CloserFails == /\ pc[Closer] # "idle"
               /\ pc'[Closer] = "idle"
               /\ faults' # faults

During(A) ==
    /\ A
    /\ CloseGuardHeld => /\ state' = state
                         /\ \A t \in Flushers : pc'[t] = "panicked" => pc[t] = "panicked"
    /\ flush_stopped => pc'[FlushThread] = pc[FlushThread]
    /\ IF CloserFails
       THEN close_pc' = "failed" /\ close_snapshot' = Nil
       ELSE UNCHANGED <<close_pc, close_snapshot>>
    /\ UNCHANGED <<notified, flush_stopped, close_ts>>

(* close is called once, and its thread does nothing else.                 *)
EngineStep == During(Next) /\ (pc[Closer] = "idle" => pc'[Closer] = "idle")

CloseNext ==
    \/ EngineStep
    \/ CloseNotify \/ FlushThreadReturns \/ CloseGuard \/ CloseReturn \/ CloseFlush

(* As in LsmStorage; close keeps running, and the flush thread looks at its*)
(* channel at every tick.                                                  *)
CloseFairness ==
    /\ \A w \in Writers :
        WF_closeVars(During(PutRecord(w) \/ TryFreeze(w) \/ Commit(w) \/ FreezeStep(w)))
    /\ WF_closeVars(During(FreezeStep(Closer)))
    /\ \A t \in Flushers : WF_closeVars(During(FlushStep(t)))
    /\ WF_closeVars(During(TriggerFlush))
    /\ WF_closeVars(FlushThreadReturns)
    /\ WF_closeVars(CloseGuard \/ CloseReturn \/ CloseFlush)

CloseSpec == CloseInit /\ [][CloseNext]_closeVars /\ CloseFairness

-------------------------------------------------------------------------------
(* Properties                                                              *)

(* The variables hold values of their types; the guard comes with a        *)
(* snapshot, and close does not take it before the flush thread is gone.   *)
CloseTypeOK ==
    /\ TypeOK
    /\ close_pc \in {"open", "join", "guarded", "closed", "failed"}
    /\ close_snapshot \in States \cup {Nil}
    /\ CloseGuardHeld <=> close_snapshot # Nil
    /\ notified \in BOOLEAN
    /\ flush_stopped \in BOOLEAN
    /\ close_ts \in 0 .. MaxTs

(***************************************************************************)
(* When close returns Ok, every version acknowledged before the call is in *)
(* an SST ("ensure all SSTs are flushed"), although writers go on all the  *)
(* while and the flush thread may have left a flush of its own half done.  *)
(***************************************************************************)
InSsts(s) == TwoMergeIterator(MergeIterator(L0Layers(s)), MergeIterator(LevelLayers(s)))

CloseFlushesAll ==
    [][close_pc # "closed" /\ close_pc' = "closed" =>
        \A c \in Cells : c[2] <= close_ts => InSsts(state)[c] = View(state)[c]]_closeVars

(***************************************************************************)
(* Once close has returned, the engine installs no SST any more: its files *)
(* can be opened by another.                                               *)
(***************************************************************************)
NothingFlushedAfterClose ==
    [][close_pc = "closed" => state'.sstables = state.sstables]_closeVars

(***************************************************************************)
(* close gets past its joins: a flush under way ends, its failure is       *)
(* logged, and the thread takes the message at a later tick.               *)
(***************************************************************************)
JoinReturns == close_pc = "join" ~> close_pc # "join"

(***************************************************************************)
(* tests/week2_day5.rs: storage.close().unwrap() returns, and then the     *)
(* memtables are empty.                                                    *)
(***************************************************************************)
CloseReturns == close_pc = "join" ~> close_pc \in {"closed", "failed"}
===============================================================================
