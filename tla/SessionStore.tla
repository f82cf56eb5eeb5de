---------------------------- MODULE SessionStore ----------------------------
(***************************************************************************)
(* One session on disk: the append-only journal <id>.jsonl and the derived *)
(* snapshot <id>.snapshot.json (crates/live/src/session.rs, SessionStore). *)
(*                                                                         *)
(* append_event is three file operations: read the current state, append a *)
(* line, overwrite the snapshot.  A process may die between any two of     *)
(* them.  The snapshot is stamped with the journal's size and is trusted   *)
(* only while that size still is the journal's.                            *)
(*                                                                         *)
(* The journal's size is counted in writes, not in bytes: a write never    *)
(* leaves the size as it was, which is all the stamp relies on.  A legacy  *)
(* journal, left by an older build in another directory, is copied to the  *)
(* primary one by the first append; that copy is taken to be one step that *)
(* succeeds (append_event does not look at its outcome).                   *)
(***************************************************************************)
EXTENDS LiveSession, Integers

CONSTANTS
  Writers,      \* threads or processes that append to the session
  Events,       \* the events they append
  Exclusive,    \* TRUE: the writers share the helper's state mutex
  WriteFaults,  \* TRUE: a journal write may fail or be cut short (disk full)
  MaxWrites     \* bound: journal writes, and sequence numbers given, in a run

VARIABLES
  where,        \* which directory holds the journal: absent, legacy or primary
  journal,      \* its lines, each [seq, event]; event = NULL when unparsable
  torn,         \* the last write ended without its newline
  bytes,        \* the journal's size, in writes
  snapFile,     \* the snapshot file [stamp, state]; state = NULL: none, or damaged
  rebuilt,      \* history: what rebuild_snapshot_from_journal would return now
  pc, op, prior,\* per writer: its step, its event, the state it read
  acked         \* history: entries whose append_event returned Ok

vars == <<where, journal, torn, bytes, snapFile, rebuilt, pc, op, prior, acked>>

ASSUME StoreAssumption ==
  /\ Exclusive \in BOOLEAN /\ WriteFaults \in BOOLEAN
  /\ MaxWrites \in Nat
  /\ NULL \notin Events
  /\ \A e \in Events : e.type = "checkpoint" /\ "phase" \in DOMAIN e
                       => e.phase \in BrowserPhases

----------------------------------------------------------------------------
\* A derived state: the snapshot and the sequence number of the next entry.
EmptyState == [snap |-> BaseSnapshot, next |-> 1]

\* One journal line replayed; an unparsable one leaves a diagnostic.
Step(st, line) ==
  IF line.event = NULL
  THEN [snap |-> WithDiag(st.snap, "journal_parse_failed"), next |-> st.next]
  ELSE [snap |-> ApplyEvent(st.snap, line.event, line.seq),
        next |-> IF line.seq + 1 > st.next THEN line.seq + 1 ELSE st.next]

NoJournal == -1
Size == IF where = "absent" THEN NoJournal ELSE bytes

\* Faulty variant: any snapshot that parses is trusted.
TrustedUnstamped == where # "absent" /\ snapFile.state # NULL

\* read_snapshot_file accepts the file.
Trusted == where # "absent" /\ snapFile.state # NULL /\ snapFile.stamp = Size

\* What read_state(id, allow_snapshot_file = true) returns.
ReadState == IF Trusted THEN snapFile.state ELSE rebuilt

Idle(w) == pc[w] = "idle"
MayStart(w) == Idle(w) /\ (Exclusive => \A v \in Writers : Idle(v))

Init ==
  /\ \/ where = "absent" /\ journal = <<>> /\ bytes = 0 /\ rebuilt = EmptyState
     \/ /\ where = "legacy" /\ bytes = 1
        /\ \E e \in Events : /\ e.type = "generate"
                            /\ journal = <<[seq |-> 1, event |-> e]>>
                            /\ rebuilt = Step(EmptyState, [seq |-> 1, event |-> e])
  /\ torn = FALSE
  /\ snapFile = [stamp |-> NoJournal, state |-> NULL]
  /\ pc = [w \in Writers |-> "idle"]
  /\ op = [w \in Writers |-> NULL]
  /\ prior = [w \in Writers |-> EmptyState]
  /\ acked = {}

----------------------------------------------------------------------------
(* append_event, first part: adopt a legacy journal, read the state.       *)
BeginAppend(w, e) ==
  /\ MayStart(w) /\ bytes < MaxWrites /\ ReadState.next <= MaxWrites
  /\ where' = IF where = "legacy" THEN "primary" ELSE where
  /\ prior' = [prior EXCEPT ![w] = ReadState]
  /\ op' = [op EXCEPT ![w] = e]
  /\ pc' = [pc EXCEPT ![w] = "append"]
  /\ UNCHANGED <<journal, torn, bytes, snapFile, rebuilt, acked>>

\* The entry writer w appends.
Entry(w) == [seq |-> prior[w].next, event |-> op[w]]

Damaged == [seq |-> 0, event |-> NULL]

\* Faulty variant: the journal is opened for writing, not for appending.
WriteLineTruncating(w) ==
  /\ torn' = FALSE /\ bytes' = bytes + 1
  /\ journal' = <<Entry(w)>> /\ rebuilt' = Step(EmptyState, Entry(w))

\* The line lands; glued to a torn one it makes one unparsable line.
WriteLine(w) ==
  /\ torn' = FALSE /\ bytes' = bytes + 1
  /\ IF torn THEN UNCHANGED <<journal, rebuilt>>
     ELSE /\ journal' = Append(journal, Entry(w))
          /\ rebuilt' = Step(rebuilt, Entry(w))

\* The write stops half way, or fails outright; write_all's error is dropped.
CutLine ==
  \/ /\ torn' = TRUE /\ bytes' = bytes + 1
     /\ IF torn THEN UNCHANGED <<journal, rebuilt>>
        ELSE journal' = Append(journal, Damaged) /\ rebuilt' = Step(rebuilt, Damaged)
  \/ UNCHANGED <<torn, bytes, journal, rebuilt>>

(* append_event, second part: append the line.                             *)
AppendLine(w) ==
  /\ pc[w] = "append"
  /\ WriteLine(w) \/ (WriteFaults /\ CutLine)
  /\ where' = "primary"
  /\ pc' = [pc EXCEPT ![w] = "persist"]
  /\ UNCHANGED <<snapFile, op, prior, acked>>

\* Faulty variant: the next number is not advanced.
DerivedSameSeq(w) ==
  [snap |-> ApplyEvent(prior[w].snap, op[w], prior[w].next), next |-> prior[w].next]

\* The state writer w persists: the one it read, with its own entry applied.
Derived(w) ==
  [snap |-> ApplyEvent(prior[w].snap, op[w], prior[w].next), next |-> prior[w].next + 1]

\* The call ends; its local variables are gone.
Return(w) == /\ pc' = [pc EXCEPT ![w] = "idle"]
             /\ op' = [op EXCEPT ![w] = NULL]
             /\ prior' = [prior EXCEPT ![w] = EmptyState]

(* persist: write the snapshot, stamped with the journal's size now.       *)
Persist(w) ==
  /\ pc[w] = "persist"
  /\ snapFile' = [stamp |-> Size, state |-> Derived(w)]
  /\ acked' = acked \cup {Entry(w)}
  /\ Return(w)
  /\ UNCHANGED <<where, journal, torn, bytes, rebuilt>>

(* The process dies, or fails to open the journal; dying while it writes   *)
(* the snapshot damages the file.                                          *)
Crash(w) ==
  /\ ~Idle(w)
  /\ Return(w)
  /\ \/ UNCHANGED snapFile
     \/ pc[w] = "persist" /\ snapFile' = [stamp |-> NoJournal, state |-> NULL]
  /\ UNCHANGED <<where, journal, torn, bytes, rebuilt, acked>>

Next ==
  \E w \in Writers :
    \/ \E e \in Events : BeginAppend(w, e)
    \/ AppendLine(w)
    \/ Persist(w)
    \/ Crash(w)

Spec == Init /\ [][Next]_vars
----------------------------------------------------------------------------
IsSnap(s) == /\ DOMAIN s = DOMAIN BaseSnapshot
             /\ s.phase \in Phases
             /\ s.pending \in Events \cup {NULL}
             /\ s.canceled \in BOOLEAN

IsState(st) == /\ DOMAIN st = {"snap", "next"}
               /\ IsSnap(st.snap)
               /\ st.next \in Nat \ {0}

(***************************************************************************)
(* Types.                                                                  *)
(***************************************************************************)
TypeOK ==
  /\ where \in {"absent", "legacy", "primary"}
  /\ journal \in Seq([seq : Nat, event : Events \cup {NULL}])
  /\ torn \in BOOLEAN
  /\ bytes \in Nat
  /\ IsState(rebuilt)
  /\ DOMAIN snapFile = {"stamp", "state"} /\ snapFile.stamp \in Int
  /\ snapFile.state # NULL => IsState(snapFile.state)
  /\ pc \in [Writers -> {"idle", "append", "persist"}]
  /\ op \in [Writers -> Events \cup {NULL}]
  /\ DOMAIN prior = Writers
  /\ \A w \in Writers : IsState(prior[w])
  /\ acked \subseteq [seq : Nat, event : Events]

(***************************************************************************)
(* A snapshot file that read_state trusts is exactly what replaying the    *)
(* journal would give: crashes between the append and the snapshot write,  *)
(* or in the middle of the latter, never make a reader see another state.  *)
(***************************************************************************)
TrustedSnapshotIsReplay == Trusted => snapFile.state = rebuilt

(***************************************************************************)
(* append_event numbers the entries 1, 2, 3, ... without a gap or a        *)
(* repeat, although the next number is read from a snapshot that a crash   *)
(* may have left behind the journal.                                       *)
(***************************************************************************)
SeqsAreDense == \A i \in DOMAIN journal : journal[i].seq = i

(***************************************************************************)
(* What a caller of append_event was told is recorded is in the journal:   *)
(* the accept the overlay saw acknowledged survives a restart.             *)
(***************************************************************************)
AckedIsJournaled == \A a \in acked : \E i \in DOMAIN journal : journal[i] = a

(***************************************************************************)
(* While a session's phase says that the user asked for something, the     *)
(* pending event, the only thing a restarted helper requeues, is that very *)
(* request: no other entry of the journal displaces it first.              *)
(***************************************************************************)
RequestIsPending ==
  LET s == rebuilt.snap
  IN  s.phase \in {RequestPhase[t] : t \in RequestTypes} =>
        /\ s.pending # NULL
        /\ s.pending.type \in RequestTypes
        /\ RequestPhase[s.pending.type] = s.phase

(***************************************************************************)
(* Once the user accepted or discarded, nothing the generation still sends *)
(* (a late publication, a late checkpoint) puts the session back into a    *)
(* phase that offers its variants.                                         *)
(***************************************************************************)
CanceledIsNeverRepublished ==
  rebuilt.snap.canceled => rebuilt.snap.phase \notin BrowserPhases \cup {"variants_ready"}
============================================================================
