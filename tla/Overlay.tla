------------------------------ MODULE Overlay ------------------------------
(***************************************************************************)
(* The live overlay in one tab of the page under design                    *)
(* (src/skill/scripts/live-browser.js, live-browser-session.js): its state *)
(* machine, what it keeps in localStorage, the posts it makes to the       *)
(* helper and the frames it reads from it, the reads of the source file,   *)
(* and how it resumes after a reload, a lost connection or an HMR update.  *)
(*                                                                         *)
(* The page is single-threaded, but between a click and what it brings     *)
(* about lie replies, frames, timers, reads and DOM mutations, and a       *)
(* reload forgets everything that is not in localStorage.  Previews are    *)
(* in the source (not component manifests); the variants of a session      *)
(* arrive together; the overlay's pick mode is on.                         *)
(***************************************************************************)
EXTENDS Integers, Sequences

CONSTANTS
  MaxSessions,      \* bound: Go clicks; sessions are numbered in their order
  MaxClicks,        \* bound: decisions clicked, Accept or Discard
  MaxAccidents,     \* bound: HMR updates, reloads, broken streams, elements gone, posts lost
                    \* with or without their effect, when one thing happens at a time,
  MaxAtOnce,        \* and otherwise
  Annotated,        \* may the user annotate what was picked?
  Compiled          \* the sessions whose source is a compiled template (.jsx, .tsx, .vue, .svelte)

ASSUME OverlayAssumption ==
  /\ MaxSessions \in Nat /\ MaxClicks \in Nat
  /\ MaxAccidents \in Nat /\ MaxAtOnce \in Nat /\ Annotated \in BOOLEAN
  /\ Compiled \subseteq 1..MaxSessions

VARIABLES
  page,     \* the document's variables, and its localStorage
  posts,    \* posts to the helper that are not settled
  sse,      \* is the event stream open?
  frames,   \* frames in it, in order
  server,   \* session -> what the helper's journal says of it
  source,   \* session -> its wrapper in the source file
  dom,      \* session -> its wrapper in the page
  begun, decided, unsent, \* history: sessions begun, decided on by the user, whose generate failed
  givenUp,  \* history: sessions that the framework has not shown (GiveUp)
  clicks,   \* decisions clicked
  calm,     \* history: one thing at a time (Quiet)
  accidents \* how many there were

helperVars == <<server, source>>
stream == <<sse, frames>>
history == <<begun, decided, unsent, givenUp, clicks, calm>>
vars == <<page, posts, helperVars, stream, dom, history, accidents>>

Sessions == 1..MaxSessions
None == 0
NotSaved == [id |-> None, state |-> "PICKING", arrived |-> FALSE, file |-> FALSE]
Fresh == [state |-> "PICKING", current |-> None, arrived |-> FALSE, file |-> FALSE,
          pending |-> None, awaiting |-> None, timer |-> FALSE, observer |-> None,
          scouting |-> FALSE, reads |-> {}, captures |-> {}, gate |-> None,
          saved |-> NotSaved, handled |-> {}]

Init ==
  /\ page = [Fresh EXCEPT !.scouting = TRUE]
  /\ posts = {} /\ sse = TRUE /\ frames = <<>>
  /\ server = [s \in Sessions |-> "none"]
  /\ source = [s \in Sessions |-> "none"] /\ dom = source
  /\ begun = 0 /\ decided = {} /\ unsent = {} /\ givenUp = {} /\ clicks = 0 /\ calm \in BOOLEAN
  /\ accidents = 0

-----------------------------------------------------------------------------
(* The page: what its functions make of its variables.                     *)

Save(p) ==
  IF p.current = None THEN p
  ELSE [p EXCEPT !.saved = [id |-> p.current, state |-> p.state, arrived |-> p.arrived, file |-> p.file]]

\* Faulty variant: no session is marked as well.
MarkNone(p) == [p EXCEPT !.handled = @ \cup {p.current}]

\* markSessionHandled marks the current session, whichever it is.
MarkHandled(p) == IF p.current = None THEN p ELSE [p EXCEPT !.handled = @ \cup {p.current}]

\* What cleanup and cleanupAcceptedSession have in common.  Only the first
\* disconnects the observer that waits for the element a read has to replace.
Cleared(p) ==
  [p EXCEPT !.observer = None, !.saved = NotSaved, !.file = FALSE, !.current = None, !.state = "PICKING"]
Disconnected(reads) == {r \in reads : r.at # "anchor"}
Cleanup(p) == [Cleared(p) EXCEPT !.reads = Disconnected(@)]
CleanupAccepted(p) == [Cleared(p) EXCEPT !.pending = None]

\* The wrapper that a page with these wrappers finds first: one with variants
\* when there are several.
Wrappers(d) == {s \in Sessions : d[s] # "none"}
Found(d) ==
  LET populated == {s \in Wrappers(d) : d[s] = "variants"} IN
  IF Wrappers(d) = {} THEN {None} ELSE IF populated = {} THEN Wrappers(d) ELSE populated

\* What the helper lists: not the sessions that are completed or discarded.
Listed(list) == {s \in Sessions : list[s] \notin {"none", "over"}}
Completed(list, s) == list[s] \in {"done", "late"}   \* with all variants, or with none
Alive(list, s) == list[s] \in {"open", "done", "late", "failed"}   \* no terminal phase
Adoptable(p, list) == {s \in Sessions : Completed(list, s) /\ s \notin p.handled}

\* restoreSessionWithoutWrapper: from localStorage, or else from the list.
\* Without a list (at init) every session is "none" in it.
Cache(p, list) ==
  IF p.saved.id # None THEN p.saved
  ELSE IF Adoptable(p, list) = {} THEN NotSaved
  ELSE LET s == CHOOSE a \in Adoptable(p, list) : TRUE IN
       [id |-> s, state |-> "GENERATING", arrived |-> list[s] = "done", file |-> TRUE]

\* What the helper does not know it refuses.
Unknown(s) == server[s] = "none"

Restorable(p, list) ==
  LET c == Cache(p, list) IN
  /\ c.id # None /\ c.id \notin p.handled
  /\ c.state \in {"GENERATING", "CYCLING"}
  /\ Listed(list) # {} => Alive(list, c.id)

\* injectVariantsFromSource under way: in the delay of a done ("timer"), at a
\* read of the file ("fetch"), or waiting for the element to replace
\* ("anchor").  A compiled template is not read: what the framework mounts is
\* looked at, a few times when the generation is complete ("mount").
Read(s, at, completed, orphan) == [id |-> s, at |-> at, completed |-> completed, orphan |-> orphan]
Tries(s) == IF s \in Compiled THEN "mount" ELSE "fetch"

Restored(p, list) ==
  LET c    == Cache(p, list)
      file == p.file \/ c.file \/ Completed(list, c.id)
      arrived == c.arrived \/ list[c.id] = "done"
  IN  [Save([p EXCEPT !.current = c.id, !.state = "GENERATING", !.file = file,
                      !.arrived = arrived, !.observer = c.id])
        EXCEPT !.timer = Unknown(c.id) \/ ~arrived,
               !.reads = IF file THEN @ \cup {Read(c.id, Tries(c.id), FALSE, c.state = "CYCLING")} ELSE @]

Accident ==
  /\ accidents < IF calm THEN MaxAccidents ELSE MaxAtOnce
  /\ accidents' = accidents + 1

Unlisted == [s \in Sessions |-> "none"]

FromWrapper(p, d, w) ==
  LET arrived == d[w] = "variants" IN
  [Save([p EXCEPT !.current = w, !.arrived = arrived, !.file = @ \/ (p.saved.id = w /\ p.saved.file),
                  !.state = IF arrived THEN "CYCLING" ELSE "GENERATING"])
    EXCEPT !.timer = ~arrived, !.observer = w]
FromStorage(p) == IF Restorable(p, Unlisted) THEN Restored(p, Unlisted) ELSE [p EXCEPT !.saved = NotSaved]

\* Faulty variants: a wrapper that was handled is resumed, or hides the
\* session after it.
ResumeHandled(p, d, w) == IF w = None THEN FromStorage(p) ELSE FromWrapper(p, d, w)
ResumeFirstWrapper(p, d, w) ==
  IF w \in p.handled THEN p ELSE IF w = None THEN FromStorage(p) ELSE FromWrapper(p, d, w)

\* resumeSession, with the wrapper w found in the page. A wrapper that was
\* handled gives way to a newer session that is saved, or is waited out.
Newer(p, w) == p.saved.id \notin {None, w, p.current} /\ Restorable(p, Unlisted)
Resume(p, d, w) ==
  IF w \in p.handled
    THEN IF Newer(p, w) THEN Restored(p, Unlisted) ELSE p
  ELSE IF w = None THEN FromStorage(p) ELSE FromWrapper(p, d, w)

\* The wrapper of s changed in the page: the scout of init goes first, then
\* the variant observer.
Scout(p, d, w) ==
  IF p.scouting /\ w # None THEN Resume([p EXCEPT !.scouting = FALSE], d, w) ELSE p
Observe(p, d, s) ==
  IF d[s] # "none" /\ p.observer # None /\ ~p.arrived /\ d[p.observer] = "variants"
    THEN Save([p EXCEPT !.arrived = TRUE, !.state = "CYCLING"])
    ELSE p
Mutated(p, d, s, w) == Observe(Scout(p, d, w), d, s)

\* connected: restoreFromActiveSessions, then recoverMissedGenerationCompletion.
RestoreFromList(p, list) ==
  IF Wrappers(dom) = {} /\ Restorable(p, list) THEN Restored(p, list) ELSE p

\* Faulty variant: a done that was missed is not recovered.
NothingRecovered(p, list) == p

RecoverMissed(p, list) ==
  IF p.current # None /\ p.state = "GENERATING" /\ Completed(list, p.current) /\ ~p.arrived
    THEN [p EXCEPT !.file = TRUE, !.reads = @ \cup {Read(p.current, "timer", TRUE, FALSE)}]
    ELSE p

-----------------------------------------------------------------------------
(* Posts. Everything but a generate waits for the reply to the document's  *)
(* last generate (sessionCreationGate).                                    *)

Waits(p) == p.state = "GENERATING" /\ ~p.arrived
Post(p, type, id) ==
  [type |-> type, id |-> id, after |-> IF type = "generate" THEN None ELSE p.gate,
   behind |-> type = "checkpoint" /\ Waits(p), at |-> "out", deaf |-> FALSE]
Creating(s) == \E q \in posts : q.type = "generate" /\ q.id = s /\ ~q.deaf
\* Faulty variant: nothing waits.
NoGate(q) == FALSE
Gated(q) == q.type # "generate" /\ ~q.deaf /\ Creating(q.after)

\* One thing at a time: when a session begins nothing is on its way, and the
\* page is done with every session that still has a wrapper.
Quiet ==
  /\ posts = {} /\ frames = <<>> /\ page.reads = {} /\ page.captures = {}
  /\ Wrappers(source) \cup Wrappers(dom) \subseteq page.handled

(***************************************************************************)
(* What the user does.                                                     *)
(***************************************************************************)
Pick ==
  /\ page.state = "PICKING"
  /\ page' = [page EXCEPT !.state = "CONFIGURING"]
  /\ UNCHANGED <<posts, helperVars, stream, dom, history, accidents>>

Leave ==
  /\ page.state = "CONFIGURING"
  /\ page' = [page EXCEPT !.state = "PICKING"]
  /\ UNCHANGED <<posts, helperVars, stream, dom, history, accidents>>

\* handleGo: an annotated request is captured and uploaded before it is posted.
Go(annotated) ==
  /\ page.state = "CONFIGURING" /\ begun < MaxSessions
  /\ annotated => Annotated /\ ~calm
  /\ calm => Quiet
  /\ LET s == begun + 1
         p == Save([page EXCEPT !.current = s, !.state = "GENERATING", !.arrived = FALSE, !.file = FALSE,
                                !.pending = None, !.awaiting = None, !.observer = s])
     IN  /\ begun' = s
         /\ page' = IF annotated THEN [p EXCEPT !.captures = @ \cup {s}] ELSE [p EXCEPT !.gate = s]
         /\ posts' = IF annotated THEN posts ELSE posts \cup {Post(page, "generate", s)}
  /\ UNCHANGED <<helperVars, stream, dom, decided, unsent, givenUp, clicks, calm, accidents>>

Captured(s) ==
  /\ s \in page.captures
  /\ page' = [page EXCEPT !.captures = @ \ {s}, !.gate = s]
  /\ posts' = posts \cup {Post(page, "generate", s)}
  /\ UNCHANGED <<helperVars, stream, dom, history, accidents>>

Decide ==
  /\ clicks < MaxClicks /\ clicks' = clicks + 1
  /\ decided' = decided \cup {page.current}

Accept ==
  /\ page.state = "CYCLING" /\ page.pending = None /\ page.current # None /\ page.arrived
  /\ page' = Save([page EXCEPT !.state = "SAVING", !.pending = page.current])
  /\ posts' = posts \cup {Post(page, "accept", page.current)}
  /\ Decide
  /\ UNCHANGED <<helperVars, stream, dom, begun, unsent, givenUp, calm, accidents>>

Discard ==
  /\ page.state = "CYCLING" /\ page.current # None
  /\ posts' = posts \cup {Post(page, "discard", page.current)}
  /\ Decide
  /\ UNCHANGED <<page, helperVars, stream, dom, begun, unsent, givenUp, calm, accidents>>

(***************************************************************************)
(* Posts: the timer of queueCheckpoint, the helper's answer, its effect on *)
(* the page.  Only the checkpoints that can have an effect are posted: of  *)
(* a session the helper does not know, or one that waits for its variants. *)
(* A document that is gone hears nothing.                                  *)
(***************************************************************************)
Checkpoints(s) ==
  IF s # None /\ (Unknown(s) \/ Waits(page)) THEN {Post(page, "checkpoint", s)} ELSE {}
FireCheckpoint ==
  /\ page.timer
  /\ page' = [page EXCEPT !.timer = FALSE]
  /\ posts' = posts \cup Checkpoints(page.current)
  /\ UNCHANGED <<helperVars, stream, dom, history, accidents>>

\* What the journal says after the post; a session it does not know is
\* refused unless the post creates it.
Journaled(q) ==
  CASE q.type = "generate" -> "open"
    [] q.type = "accept"   -> "accepted"
    [] q.type = "discard"  -> "discarded"
    [] OTHER               -> server[q.id]

Broadcast(type, s) == frames' = IF sse THEN Append(frames, [type |-> type, id |-> s]) ELSE frames

Settle(q, at) ==
  posts' = (posts \ {q}) \cup
           (IF q.deaf \/ (q.type = "checkpoint" /\ at # "refused") THEN {} ELSE {[q EXCEPT !.at = at]})

\* To a checkpoint of a page that has missed the done it is sent again.
Missed(q) == q.behind /\ server[q.id] = "done"
Arrive(q) ==
  /\ q \in posts /\ q.at = "out" /\ ~Gated(q)
  /\ LET known == q.type = "generate" \/ ~Unknown(q.id) IN
     /\ server' = IF known THEN [server EXCEPT ![q.id] = Journaled(q)] ELSE server
     /\ Settle(q, IF known THEN "ok" ELSE "refused")
  /\ IF Missed(q) THEN Broadcast("done", q.id) ELSE UNCHANGED frames
  /\ UNCHANGED <<page, source, sse, dom, history, accidents>>

\* The request, or its reply, is lost.
Lose(q) ==
  /\ q \in posts /\ q.at \in {"out", "ok"} /\ ~Gated(q)
  /\ Accident
  /\ Settle(q, "failed")
  /\ UNCHANGED <<page, helperVars, stream, dom, history>>

\* The reply to a generate lets the posts after it go; the first of them is
\* the checkpoint generate_started.
GenerateReply(q) ==
  /\ q.type = "generate"
  /\ posts' = IF q.at = "ok" /\ page.current = q.id
                THEN (posts \ {q}) \cup Checkpoints(q.id) ELSE posts \ {q}
  /\ unsent' = IF q.at = "ok" THEN unsent ELSE unsent \cup {q.id}
  /\ UNCHANGED page

\* abandonForeignSession.
CheckpointReply(q) ==
  /\ q.type = "checkpoint"
  /\ page' = IF q.id = page.current THEN Cleanup(MarkHandled(page)) ELSE page
  /\ posts' = posts \ {q} /\ UNCHANGED unsent

AcceptReply(q) ==
  /\ q.type = "accept"
  /\ page' =
       IF q.at # "ok"
         THEN [page EXCEPT !.pending = IF @ = q.id THEN None ELSE @, !.state = "CYCLING"]
       ELSE IF page.pending = q.id
         THEN CleanupAccepted([MarkHandled(page) EXCEPT !.awaiting = q.id])
       ELSE page
  /\ posts' = posts \ {q} /\ UNCHANGED unsent

DiscardReply(q) ==
  /\ q.type = "discard"
  /\ page' = IF q.at = "ok" THEN Cleanup(MarkHandled(page)) ELSE page
  /\ posts' = posts \ {q} /\ UNCHANGED unsent

Reply(q) ==
  /\ q \in posts /\ q.at # "out"
  /\ GenerateReply(q) \/ CheckpointReply(q) \/ AcceptReply(q) \/ DiscardReply(q)
  /\ UNCHANGED <<helperVars, stream, dom, begun, decided, givenUp, clicks, calm, accidents>>

(***************************************************************************)
(* The helper and the agent behind it, as far as the page can tell.        *)
(***************************************************************************)
HelperTurns(s, phase) == server' = [server EXCEPT ![s] = phase]

Scaffold(s) ==
  /\ server[s] = "open" /\ source[s] = "none"
  /\ source' = [source EXCEPT ![s] = "scaffold"]
  /\ UNCHANGED <<page, posts, server, stream, dom, history, accidents>>

Generate(s) ==
  /\ server[s] = "open" /\ source[s] # "variants"
  /\ source' = [source EXCEPT ![s] = "variants"]
  /\ UNCHANGED <<page, posts, server, stream, dom, history, accidents>>

Finish(s) ==
  /\ server[s] = "open" /\ source[s] = "variants"
  /\ HelperTurns(s, "done") /\ Broadcast("done", s)
  /\ UNCHANGED <<page, posts, source, sse, dom, history, accidents>>

\* The agent gives up on the generation or, unless all goes well, on an accept.
Fail(s) ==
  /\ server[s] = "open" \/ (server[s] = "accepted" /\ ~calm)
  /\ HelperTurns(s, "failed") /\ Broadcast("error", s)
  /\ UNCHANGED <<page, posts, source, sse, dom, history, accidents>>

\* It carries out a decision: the wrapper leaves the source.
CarryOut(s) ==
  /\ server[s] \in {"accepted", "discarded"}
  /\ HelperTurns(s, "over")
  /\ Broadcast(IF server[s] = "accepted" THEN "complete" ELSE "discarded", s)
  /\ source' = [source EXCEPT ![s] = "none"]
  /\ UNCHANGED <<page, posts, sse, dom, history, accidents>>

(***************************************************************************)
(* The event stream.                                                       *)
(***************************************************************************)
Drop ==
  /\ sse /\ Accident
  /\ sse' = FALSE /\ frames' = <<>>
  /\ UNCHANGED <<page, posts, helperVars, dom, history>>

\* The list counts no variant of a session whose page has said since its done
\* that it has none.
Connect ==
  /\ ~sse
  /\ sse' = TRUE
  /\ \E late \in SUBSET {s \in Sessions : server[s] = "done"} :
       frames' = <<[type |-> "connected",
                    list |-> [s \in Sessions |-> IF s \in late THEN "late" ELSE server[s]]]>>
  /\ UNCHANGED <<page, posts, helperVars, dom, history, accidents>>

OnConnected(m) == RecoverMissed(RestoreFromList(page, m.list), m.list)

\* done names the file of whatever session is current.
OnDone(m) ==
  LET p == [page EXCEPT !.file = TRUE] IN
  IF p.arrived THEN IF p.state = "GENERATING" THEN [p EXCEPT !.state = "CYCLING"] ELSE p
  ELSE IF p.state = "GENERATING" /\ m.id = p.current
    THEN [p EXCEPT !.reads = @ \cup {Read(m.id, "timer", TRUE, FALSE)}]
  ELSE p

OnComplete(m) ==
  LET p == [page EXCEPT !.awaiting = IF @ = m.id THEN None ELSE @] IN
  IF p.pending # m.id THEN p
  ELSE IF p.current \notin {None, m.id} THEN [p EXCEPT !.pending = None]
  ELSE CleanupAccepted(MarkHandled(p))

OnDiscarded(m) == IF m.id = page.current THEN Cleanup(MarkHandled(page)) ELSE page

\* An accept's error hands the session back, or is only told; an error of the
\* current session ends it; any other one hides the bar and frees the picker.
OnError(m) ==
  IF page.pending = m.id THEN [page EXCEPT !.pending = None, !.awaiting = None, !.state = "CYCLING"]
  ELSE IF page.awaiting = m.id THEN [page EXCEPT !.awaiting = None]
  ELSE IF page.current = m.id THEN Cleanup(MarkHandled(page))
  ELSE [page EXCEPT !.saved = IF @.id = m.id THEN NotSaved ELSE @, !.state = "PICKING"]

Receive ==
  /\ frames # <<>>
  /\ LET m == Head(frames) IN
     page' = CASE m.type = "connected" -> OnConnected(m)
               [] m.type = "done"      -> OnDone(m)
               [] m.type = "complete"  -> OnComplete(m)
               [] m.type = "discarded" -> OnDiscarded(m)
               [] m.type = "error"     -> OnError(m)
  /\ frames' = Tail(frames)
  /\ UNCHANGED <<posts, helperVars, sse, dom, history, accidents>>

(***************************************************************************)
(* injectVariantsFromSource.                                               *)
(***************************************************************************)
Drops(r) == [page EXCEPT !.reads = @ \ {r}]

\* The delay of a done.
Delayed(r) ==
  /\ r \in page.reads /\ r.at = "timer"
  /\ page' = IF page.state = "GENERATING" /\ r.id = page.current /\ ~page.arrived
               THEN [Drops(r) EXCEPT !.reads = @ \cup {[r EXCEPT !.at = Tries(r.id)]}, !.file = TRUE]
               ELSE Drops(r)
  /\ UNCHANGED <<posts, helperVars, stream, dom, history, accidents>>

\* completeSourceInjection of this wrapper: one without variants is waited for
\* by a session that generates, and ends it if after some reads it is still so
\* although the generation is complete.
Injected(r, p, wrapper) ==
  LET q == [p EXCEPT !.reads = Disconnected(@)] IN
  IF wrapper = "variants"
    THEN Save([q EXCEPT !.arrived = TRUE, !.state = "CYCLING", !.file = TRUE])
  ELSE IF p.state = "GENERATING" /\ ~r.completed THEN [q EXCEPT !.arrived = FALSE]
  ELSE Cleanup([q EXCEPT !.arrived = FALSE])

\* The wrapper of the source takes the place of the page's, or of the element
\* it was made for.
Fetched(r) ==
  /\ r \in page.reads /\ r.at = "fetch" /\ source[r.id] # "none"
  /\ dom' = [dom EXCEPT ![r.id] = source[r.id]]
  /\ \E w \in Found(dom') : page' = Mutated(Injected(r, Drops(r), source[r.id]), dom', r.id, w)
  /\ UNCHANGED <<posts, helperVars, stream, history, accidents>>

\* Neither is in the page, which has rendered without the element:
\* enterRecoveryWaitingForAnchor.
AnchorMissing(r) ==
  /\ r \in page.reads /\ r.at = "fetch" /\ source[r.id] # "none" /\ dom[r.id] = "none"
  /\ Accident
  /\ page' = [Save([Drops(r) EXCEPT !.state = "GENERATING"])
                EXCEPT !.reads = Disconnected(@) \cup {Read(r.id, "anchor", FALSE, FALSE)}, !.timer = TRUE]
  /\ UNCHANGED <<posts, helperVars, stream, dom, history>>

\* A mutation brings one of them: the file is read again.
Retry(r) ==
  /\ r \in page.reads /\ r.at = "anchor"
  /\ page' = [Drops(r) EXCEPT !.reads = @ \cup {[r EXCEPT !.at = "fetch"]}, !.file = TRUE]
  /\ UNCHANGED <<posts, helperVars, stream, dom, history, accidents>>

\* A session whose file or component is looked at goes on being so.
Active(r) ==
  r.id = page.current /\ (page.state = "GENERATING" \/ (r.orphan /\ page.state = "CYCLING"))

\* The framework has mounted the variants,
Mounted(r) ==
  /\ r \in page.reads /\ r.at = "mount" /\ dom[r.id] = "variants"
  /\ page' = IF Active(r) THEN Injected(r, Drops(r), dom[r.id]) ELSE Drops(r)
  /\ UNCHANGED <<posts, helperVars, stream, dom, history, accidents>>

\* or still, after the tries, the wrapper without them: recoverEmptyCycling.
GiveUp(r) ==
  /\ r \in page.reads /\ r.at = "mount" /\ dom[r.id] = "scaffold" /\ r.completed /\ Active(r)
  /\ page' = Cleanup(Drops(r)) /\ givenUp' = givenUp \cup {r.id}
  /\ UNCHANGED <<posts, helperVars, stream, dom, begun, decided, unsent, clicks, calm, accidents>>

\* Otherwise the session waits for what it will mount.
NotMounted(r) ==
  /\ r \in page.reads /\ r.at = "mount"
  /\ \/ dom[r.id] = "scaffold" /\ ~(r.completed /\ Active(r))
     \/ dom[r.id] = "none" /\ source[r.id] # "none"
  /\ page' = Drops(r)
  /\ UNCHANGED <<posts, helperVars, stream, dom, history, accidents>>

\* The source has no wrapper. The read of a session that was cycling is tried
\* again, and after some reads the session is discarded.
Missing(r) ==
  /\ r \in page.reads /\ r.at \in {"fetch", "mount"} /\ source[r.id] = "none"
  /\ r.at = "mount" => dom[r.id] = "none"
  /\ IF r.orphan /\ Active(r)
       THEN /\ page' = Cleanup(MarkHandled(Drops(r)))
            /\ posts' = posts \cup {Post(page, "discard", r.id)}
       ELSE page' = Drops(r) /\ UNCHANGED posts
  /\ UNCHANGED <<helperVars, stream, dom, history, accidents>>

(***************************************************************************)
(* The dev server: an update of a part of the page, and a reload.          *)
(***************************************************************************)
Hmr(s) ==
  /\ dom[s] # source[s]
  /\ Accident
  /\ dom' = [dom EXCEPT ![s] = source[s]]
  /\ \E w \in Found(dom') : page' = Mutated(page, dom', s, w)
  /\ UNCHANGED <<posts, helperVars, stream, history>>

\* A reload ends the document: what was gated is never sent, what was sent is
\* not heard of. A component need not be mounted in the new one. init connects
\* and resumes.
Reload ==
  /\ calm => \A q \in posts : q.type # "generate"
  /\ Accident
  /\ posts' = {[q EXCEPT !.deaf = TRUE] : q \in {x \in posts : x.at = "out" /\ ~Gated(x)}}
  /\ sse' = FALSE /\ frames' = <<>>
  /\ \E closed \in SUBSET (Compiled \cap Wrappers(source)) :
       dom' = [s \in Sessions |-> IF s \in closed THEN "none" ELSE source[s]]
  /\ \E w \in Found(dom') :
       LET p == Resume([Fresh EXCEPT !.saved = page.saved, !.handled = page.handled], dom', w) IN
       page' = [p EXCEPT !.scouting = p.current = None \/ w = None]
  /\ UNCHANGED <<helperVars, history>>
-----------------------------------------------------------------------------
\* What goes on by itself.
Progress ==
  \/ \E q \in posts : Arrive(q) \/ Reply(q)
  \/ \E s \in page.captures : Captured(s)
  \/ \E r \in page.reads : Delayed(r) \/ Fetched(r) \/ Missing(r)
  \/ \E r \in page.reads : Mounted(r) \/ GiveUp(r) \/ NotMounted(r)
  \/ \E r \in page.reads : dom[r.id] # "none" /\ Retry(r)
  \/ FireCheckpoint \/ Connect \/ Receive

Next ==
  \/ Progress
  \/ Pick \/ Leave \/ Accept \/ Discard
  \/ \E annotated \in BOOLEAN : Go(annotated)
  \/ \E q \in posts : Lose(q)
  \/ \E r \in page.reads : AnchorMissing(r) \/ Retry(r)
  \/ \E s \in Sessions : Scaffold(s) \/ Generate(s) \/ Finish(s) \/ Fail(s) \/ CarryOut(s) \/ Hmr(s)
  \/ Drop \/ Reload

Spec == Init /\ [][Next]_vars

\* Requests are answered, timers fire, the stream reconnects, and a wrapper
\* that lands is seen. Neither the user nor the agent nor HMR has to do
\* anything, and no element has to come back to the page.
FairSpec == Spec /\ WF_vars(Progress)
-----------------------------------------------------------------------------
Ids == 0..MaxSessions
States == {"PICKING", "CONFIGURING", "GENERATING", "CYCLING", "SAVING"}
Wrapper == {"none", "scaffold", "variants"}

TypeOK ==
  /\ page.state \in States /\ page.current \in Ids /\ page.pending \in Ids
  /\ page.awaiting \in Ids /\ page.observer \in Ids /\ page.gate \in Ids
  /\ page.arrived \in BOOLEAN /\ page.file \in BOOLEAN /\ page.timer \in BOOLEAN
  /\ page.scouting \in BOOLEAN /\ page.handled \subseteq Sessions
  /\ page.saved \in [id : Ids, state : States, arrived : BOOLEAN, file : BOOLEAN]
  /\ \A q \in posts : q.id \in Sessions /\ q.at \in {"out", "ok", "refused", "failed"}
  /\ server \in [Sessions -> {"none", "open", "done", "failed", "accepted", "discarded", "over"}]
  /\ source \in [Sessions -> Wrapper] /\ dom \in [Sessions -> Wrapper]
  /\ begun \in Ids /\ decided \subseteq Sessions /\ unsent \subseteq Sessions
  /\ givenUp \subseteq Sessions

Open == {"GENERATING", "CYCLING", "SAVING"}

\* A session the page is done with never comes back in it: not from
\* localStorage, not from a wrapper that is still in the source, not from the
\* helper's list.
HandledIsLeft ==
  /\ page.current # None /\ page.state \in Open => page.current \notin page.handled
  /\ page.saved.id \notin page.handled

\* The session the user has begun and not decided on, if the agent has not
\* given it up, nor the page: that is for a compiled template whose variants
\* are done and that the framework still shows without them after the tries.
Undecided(s) == s <= begun /\ s \notin decided \cup unsent \cup givenUp /\ server[s] # "failed"

\* As long as one thing happens at a time, reloads, dropped streams, HMR and
\* late frames included, the page keeps the session it has begun; also while
\* its element or its component is not in the page.
KeptWhenCalm ==
  calm => \A s \in Sessions : Undecided(s) => page.current = s /\ page.state \in {"GENERATING", "CYCLING"}

\* What the user began is not thrown away while it is captured and uploaded.
CapturedIsKept == page.captures \cap page.handled = {}

\* A page with a session shows that session: its bar is there, and the picker
\* is not free.
SessionHasBar == page.current # None => page.state # "PICKING"

\* Once the agent is done, a page does not go on waiting for the variants of a
\* wrapper that it shows or has room for, also when it was reloaded or had no
\* stream at that moment, and without HMR: it gets them from the source or, of
\* a compiled template, gives up.  What it may wait for without end is that the
\* element to replace, or the component, is in the page.
Behind(s) == page.current = s /\ page.state = "GENERATING" /\ ~page.arrived /\ server[s] = "done"
NotInPage(s) ==
  dom[s] = "none" /\ (s \in Compiled \/ \E r \in page.reads : r.id = s /\ r.at = "anchor")
CompletedArrives == \A s \in Sessions : Behind(s) ~> ~Behind(s) \/ NotInPage(s)
=============================================================================
