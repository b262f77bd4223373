---------------------------- MODULE InboxProofs ----------------------------
(***************************************************************************)
(* NothingPassedOver and ActiveWatchHasCursor for every inbox, number of   *)
(* syncs, workers and renewals, page size, batch size and set of faults.   *)
(***************************************************************************)
EXTENDS InboxSync, TLAPS

-----------------------------------------------------------------------------
(* Cursors and what stands before them                                     *)

(* The messages a cursor may stand behind.                                 *)
Seen == {m \in Positions : row[m] # "absent" \/ m <= watched}

(* Only Gmail has page tokens; no cursor means the start.                  *)
Good(c, p) ==
  /\ c \in Cursors
  /\ c.kind = "none" => c.at = 0
  /\ c.kind = "page" => p = "gmail"

Sound(c, seen, p) == Good(c, p) /\ (c.kind = "after" => 1..c.at \subseteq seen)

Stages == {"idle", "next", "stored", "open", "list", "headers", "import", "due",
           "checkpoint", "record"}

FrameShape == [stage : Stages, cursor : Cursors, more : BOOLEAN, pages : Nat,
               page : SUBSET Positions, todo : SUBSET Positions,
               resync : BOOLEAN, watching : BOOLEAN]

Todo(f) == IF f.stage = "headers" THEN f.todo ELSE {}

(* What a sync's cursor stands behind was seen, or is a header it has yet  *)
(* to record.                                                              *)
SoundFrame(f, seen, p) ==
  /\ f \in FrameShape
  /\ Good(f.cursor, p)
  /\ f.cursor.kind = "after" => 1..f.cursor.at \subseteq seen \cup Todo(f)

MailboxTyped ==
  /\ arrived \in 0..MaxMessages
  /\ watched \in Nat
  /\ row \in [Positions -> {"absent", "listed", "imported"}]

StoredSound ==
  /\ Sound(cursor, Seen, provider)
  /\ subscription \in Subscription
  /\ Sound(subscription.cursor, Seen, provider)

FramesSound ==
  /\ task \in [Tasks -> FrameShape]
  /\ \A t \in Tasks : SoundFrame(task[t], Seen, provider)

RenewalsSound ==
  /\ renewal \in [Renewers -> Renewal]
  /\ \A r \in Renewers : Good(renewal[r].cursor, provider)

CursorInv == MailboxTyped /\ StoredSound /\ FramesSound /\ RenewalsSound

(* More messages are seen, the soundness of cursors and frames stays.      *)
LEMMA SoundnessGrows ==
  ASSUME NEW p, NEW s, NEW q, s \subseteq q
  PROVE  /\ \A c : Sound(c, s, p) => Sound(c, q, p)
         /\ \A f : SoundFrame(f, s, p) => SoundFrame(f, q, p)
  BY DEF Sound, SoundFrame

LEMMA NoCursorSound ==
  ASSUME NEW p, NEW s
  PROVE  Sound(NoCursor, s, p) /\ NoCursor \in Cursors
<1>1. MaxMessages \in Nat
  BY InboxAssumption
<1> QED
  BY <1>1 DEF Sound, Good, NoCursor, Cursors

LEMMA IdleTaskSound ==
  ASSUME NEW p, NEW s
  PROVE  /\ SoundFrame(IdleTask, s, p)
         /\ \A st \in Stages, b \in BOOLEAN, w \in BOOLEAN :
              SoundFrame([IdleTask EXCEPT !.stage = st, !.resync = b, !.watching = w], s, p)
<1>1. Good(NoCursor, p) /\ NoCursor \in Cursors
  BY NoCursorSound DEF Sound
<1>2. NoCursor.kind = "none"
  BY DEF NoCursor
<1>3. IdleTask \in FrameShape
  BY <1>1 DEF IdleTask, FrameShape, Stages
<1>4. IdleTask.cursor = NoCursor
  BY DEF IdleTask
<1>5. ASSUME NEW st \in Stages, NEW b \in BOOLEAN, NEW w \in BOOLEAN
      PROVE  SoundFrame([IdleTask EXCEPT !.stage = st, !.resync = b, !.watching = w], s, p)
  <2> DEFINE g == [IdleTask EXCEPT !.stage = st, !.resync = b, !.watching = w]
  <2>1. g \in FrameShape /\ g.cursor = NoCursor
    BY <1>3, <1>4 DEF FrameShape
  <2> HIDE DEF g
  <2>2. SoundFrame(g, s, p)
    BY <2>1, <1>1, <1>2 DEF SoundFrame
  <2> QED
    BY <2>2 DEF g
<1> QED
  BY <1>1, <1>2, <1>3, <1>4, <1>5 DEF SoundFrame

(* A sound frame outside its headers may move to any stage.                *)
LEMMA SoundFrameMoves ==
  ASSUME NEW p, NEW s, NEW f, SoundFrame(f, s, p), f.stage # "headers" \/ f.todo = {},
         NEW st \in Stages
  PROVE  /\ SoundFrame([f EXCEPT !.stage = st], s, p)
         /\ Sound(f.cursor, s, p)
  BY DEF SoundFrame, Sound, FrameShape, Todo

-----------------------------------------------------------------------------
(* What a step may do to the invariant                                     *)

(* A step that moves one task on, to a sound frame.                        *)
LEMMA TaskMoves ==
  ASSUME CursorInv, NEW t \in Tasks, NEW f, SoundFrame(f, Seen, provider),
         task' = [task EXCEPT ![t] = f],
         UNCHANGED <<provider, arrived, watched, row, renewal>>,
         Sound(cursor', Seen, provider),
         subscription' \in Subscription, Sound(subscription'.cursor, Seen, provider)
  PROVE  CursorInv'
<1>1. MailboxTyped' /\ Seen' = Seen
  BY DEF CursorInv, MailboxTyped, Seen
<1>2. StoredSound'
  BY <1>1 DEF StoredSound
<1>3. f \in FrameShape
  BY DEF SoundFrame
<1>4. FramesSound'
  BY <1>1, <1>3 DEF CursorInv, FramesSound
<1>5. RenewalsSound'
  BY DEF CursorInv, RenewalsSound
<1> QED
  BY <1>1, <1>2, <1>4, <1>5 DEF CursorInv

(* A step that leaves the tasks and the rows alone.                        *)
LEMMA TasksRest ==
  ASSUME CursorInv,
         UNCHANGED <<provider, row, task>>,
         arrived' \in 0..MaxMessages, watched' \in Nat, watched <= watched',
         Sound(cursor', Seen', provider),
         subscription' \in Subscription, Sound(subscription'.cursor, Seen', provider),
         RenewalsSound'
  PROVE  CursorInv'
<1>1. MailboxTyped'
  BY DEF CursorInv, MailboxTyped
<1>2. Seen \subseteq Seen'
  <2> SUFFICES ASSUME NEW m \in Positions, m <= watched
               PROVE  m <= watched'
    BY DEF Seen
  <2> QED
    BY DEF Positions, CursorInv, MailboxTyped
<1>3. StoredSound'
  BY DEF StoredSound
<1>4. FramesSound'
  BY <1>2, SoundnessGrows DEF CursorInv, FramesSound
<1> QED
  BY <1>1, <1>3, <1>4 DEF CursorInv

(* A step that records or imports a message of its page.                   *)
LEMMA RowsGrow ==
  ASSUME CursorInv, NEW t \in Tasks, NEW f, SoundFrame(f, Seen', provider),
         task' = [task EXCEPT ![t] = f],
         row' \in [Positions -> {"absent", "listed", "imported"}],
         \A m \in Positions : row[m] # "absent" => row'[m] # "absent",
         UNCHANGED <<provider, arrived, watched, cursor, subscription, renewal>>
  PROVE  CursorInv'
<1>1. MailboxTyped'
  BY DEF CursorInv, MailboxTyped
<1>2. Seen \subseteq Seen'
  BY DEF Seen
<1>3. StoredSound'
  BY <1>2, SoundnessGrows DEF CursorInv, StoredSound
<1>4. f \in FrameShape
  BY DEF SoundFrame
<1>5. FramesSound'
  BY <1>2, <1>4, SoundnessGrows DEF CursorInv, FramesSound
<1>6. RenewalsSound'
  BY DEF CursorInv, RenewalsSound
<1> QED
  BY <1>1, <1>3, <1>5, <1>6 DEF CursorInv

(* The page before the next cursor: what a listing moves over it returns.  *)
LEMMA ListingCovers ==
  ASSUME MailboxTyped, NEW c, Sound(c, Seen, provider)
  PROVE  /\ Good(NextCursor(c), provider)
         /\ Page(c) \in SUBSET Positions
         /\ NextCursor(c).kind = "after" => 1..NextCursor(c).at \subseteq Seen \cup Page(c)
<1> DEFINE n == NextCursor(c)
<1>1. /\ arrived \in Nat /\ arrived <= MaxMessages
      /\ MaxMessages \in Nat /\ PageSize \in Nat /\ PageSize > 0
  BY InboxAssumption DEF MailboxTyped
<1>2. /\ c.at \in Nat /\ c.at <= MaxMessages
      /\ c.kind \in {"none", "page", "after"}
      /\ c.kind = "none" => c.at = 0
      /\ c.kind = "page" => provider = "gmail"
  BY <1>1 DEF Sound, Good, Cursors
<1>3. Page(c) \in SUBSET Positions
  BY DEF Page
<1>4. CASE Backwards(c)
  <2>1. Newest(c) \in Nat /\ Newest(c) <= MaxMessages
    BY <1>1, <1>2 DEF Newest
  <2>2. CASE HasMore(c)
    <3>1. Newest(c) > PageSize
      BY <2>2, <1>4 DEF HasMore
    <3>2. n = [kind |-> "page", at |-> Newest(c) - PageSize]
      BY <2>2, <1>4 DEF NextCursor
    <3>3. Newest(c) - PageSize \in 0..MaxMessages
      BY <3>1, <2>1, <1>1
    <3> QED
      BY <3>2, <3>3, <1>3, <1>4 DEF Good, Cursors, Backwards
  <2>3. CASE ~HasMore(c)
    <3>1. n = NoCursor
      BY <2>3, <1>4 DEF NextCursor
    <3> QED
      BY <3>1, <1>3, NoCursorSound DEF Sound, NoCursor
  <2> QED
    BY <2>2, <2>3
<1>5. CASE ~Backwards(c)
  <2>1. 1..c.at \subseteq Seen
    BY <1>2, <1>5 DEF Backwards, Sound
  <2>2. Page(c) = {m \in Positions : c.at < m /\ m <= c.at + PageSize /\ m <= arrived}
    BY <1>5 DEF Page
  <2>3. n = After(IF HasMore(c) THEN c.at + PageSize ELSE arrived)
    BY <1>5 DEF NextCursor
  <2>4. HasMore(c) <=> arrived > c.at + PageSize
    BY <1>5 DEF HasMore
  <2>5. n.kind = "after" /\ n = [kind |-> "after", at |-> n.at]
    BY <2>3 DEF After
  <2>6. n.at \in Nat /\ n.at <= arrived /\ n.at <= c.at + PageSize
    <3>1. CASE HasMore(c)
      BY <3>1, <2>3, <2>4, <1>1, <1>2 DEF After
    <3>2. CASE ~HasMore(c)
      BY <3>2, <2>3, <2>4, <1>1, <1>2 DEF After
    <3> QED
      BY <3>1, <3>2
  <2> HIDE DEF n
  <2>7. Good(n, provider)
    <3>1. n.at \in 0..MaxMessages
      BY <2>6, <1>1
    <3> QED
      BY <3>1, <2>5 DEF Good, Cursors
  <2>8. ASSUME NEW m \in 1..n.at  PROVE m \in Seen \cup Page(c)
    <3>1. m \in Nat /\ 1 <= m /\ m <= n.at
      BY <2>6
    <3>2. m \in Positions /\ m <= arrived /\ m <= c.at + PageSize
      BY <3>1, <2>6, <1>1, <1>2 DEF Positions
    <3>3. CASE m <= c.at
      BY <3>1, <3>3, <2>1, <1>2
    <3>4. CASE c.at < m
      BY <3>2, <3>4, <2>2
    <3> QED
      BY <3>1, <3>3, <3>4, <1>2
  <2> QED
    BY <2>7, <2>8, <1>3 DEF n
<1> QED
  BY <1>4, <1>5

-----------------------------------------------------------------------------
(* The steps                                                               *)

(* A sync that ends, however it ends.                                      *)
LEMMA EndPreserves ==
  ASSUME CursorInv, NEW t \in Tasks, Ends(t),
         UNCHANGED <<provider, arrived, watched, row, renewal>>,
         Sound(cursor', Seen, provider),
         subscription' \in Subscription, Sound(subscription'.cursor, Seen, provider)
  PROVE  CursorInv'
<1> DEFINE f == IF t \in Workers THEN [IdleTask EXCEPT !.stage = "next"] ELSE IdleTask
<1>1. SoundFrame([IdleTask EXCEPT !.stage = "next"], Seen, provider)
  <2>1. IdleTask.stage = "idle" /\ SoundFrame(IdleTask, Seen, provider)
    BY IdleTaskSound DEF IdleTask
  <2> QED
    BY <2>1, SoundFrameMoves DEF Stages
<1>2. SoundFrame(f, Seen, provider)
  BY <1>1, IdleTaskSound
<1>3. task' = [task EXCEPT ![t] = f]
  BY DEF Ends
<1> HIDE DEF f
<1> QED
  BY <1>2, <1>3, TaskMoves

(* What the steps rely on of the invariant.                                *)
LEMMA InvFacts ==
  ASSUME CursorInv
  PROVE  /\ Sound(cursor, Seen, provider)
         /\ subscription \in Subscription
         /\ Sound(subscription.cursor, Seen, provider)
         /\ \A t \in Tasks : SoundFrame(task[t], Seen, provider) /\ task[t] \in FrameShape
  BY DEF CursorInv, StoredSound, FramesSound

(* A frame that moves to another stage.                                    *)
LEMMA StageMoves ==
  ASSUME CursorInv, NEW t \in Tasks, NEW st \in Stages, GoTo(t, st),
         task[t].stage # "headers",
         UNCHANGED <<provider, arrived, watched, row, renewal>>,
         Sound(cursor', Seen, provider),
         subscription' \in Subscription, Sound(subscription'.cursor, Seen, provider)
  PROVE  CursorInv'
<1> DEFINE f == [task[t] EXCEPT !.stage = st]
<1>1. SoundFrame(f, Seen, provider)
  BY InvFacts, SoundFrameMoves
<1>2. task' = [task EXCEPT ![t] = f]
  BY DEF GoTo
<1> HIDE DEF f
<1> QED
  BY <1>1, <1>2, TaskMoves

LEMMA OpenPreserves ==
  ASSUME CursorInv, NEW t \in Tasks, Open(t)
  PROVE  CursorInv'
<1> DEFINE c == IF t \in Manuals THEN cursor ELSE task[t].cursor
           f == [task[t] EXCEPT !.stage = "list", !.cursor = c]
<1>1. task[t].stage \in {"idle", "open"}
  BY DEF Open
<1>2. Sound(c, Seen, provider)
  BY <1>1, InvFacts, SoundFrameMoves DEF Stages
<1>3. task' = [task EXCEPT ![t] = f]
  BY DEF Open
<1> HIDE DEF c
<1>4. f \in FrameShape /\ f.cursor = c
  BY <1>2, InvFacts DEF FrameShape, Stages, Sound, Good
<1> HIDE DEF f
<1>5. SoundFrame(f, Seen, provider)
  BY <1>2, <1>4 DEF SoundFrame, Sound
<1> QED
  BY <1>3, <1>5, InvFacts, TaskMoves DEF Open, providerVars, storeVars

LEMMA ListsSound ==
  ASSUME CursorInv, NEW t \in Tasks, Lists(t)
  PROVE  Sound(task[t].cursor, Seen, provider)
<1>1. task[t].stage \in {"list", "import"}
  BY DEF Lists, PageDone
<1> QED
  BY <1>1, InvFacts, SoundFrameMoves DEF Stages

LEMMA ListPagePreserves ==
  ASSUME CursorInv, NEW t \in Tasks, ListPage(t)
  PROVE  CursorInv'
<1> DEFINE c == task[t].cursor
           n == NextCursor(c)
           p == Page(c)
           h == HasMore(c)
           f == [task[t] EXCEPT !.stage = "headers", !.cursor = n, !.more = h,
                                !.pages = task[t].pages + 1, !.page = p, !.todo = p]
<1>1. /\ Good(n, provider)
      /\ p \in SUBSET Positions
      /\ n.kind = "after" => 1..n.at \subseteq Seen \cup p
  BY ListsSound, ListingCovers DEF ListPage, CursorInv
<1>2. h \in BOOLEAN
  <2>1. /\ arrived \in Nat /\ PageSize \in Nat
        /\ c.at \in Nat /\ Newest(c) \in Nat
    BY InvFacts, InboxAssumption
       DEF CursorInv, MailboxTyped, FrameShape, Cursors, Newest
  <2>2. (Newest(c) > PageSize) \in BOOLEAN /\ (arrived > c.at + PageSize) \in BOOLEAN
    BY <2>1
  <2> QED
    BY <2>2 DEF HasMore
<1>3. task' = [task EXCEPT ![t] = f]
  BY DEF ListPage
<1> HIDE DEF n, p, h, c
<1>4. /\ f \in FrameShape
      /\ f.cursor = n /\ f.stage = "headers" /\ f.todo = p
  <2>1. task[t] \in FrameShape
    BY InvFacts
  <2>2. n \in Cursors /\ task[t].pages + 1 \in Nat /\ "headers" \in Stages
    BY <1>1, <2>1 DEF Good, FrameShape, Stages
  <2> QED
    BY <1>1, <1>2, <2>1, <2>2 DEF FrameShape
<1> HIDE DEF f
<1>5. SoundFrame(f, Seen, provider)
  BY <1>1, <1>4 DEF SoundFrame, Todo
<1> QED
  BY <1>3, <1>5, InvFacts, TaskMoves DEF ListPage, providerVars, storeVars

LEMMA ListForgottenPreserves ==
  ASSUME CursorInv, NEW t \in Tasks, ListForgotten(t)
  PROVE  CursorInv'
<1> USE DEF ListForgotten, providerVars, storeVars
<1>1. CASE t \in Workers /\ ~task[t].resync /\ Handling(t).kind = "mail_changed"
  <2> DEFINE f == [IdleTask EXCEPT !.stage = "open", !.resync = TRUE,
                                   !.watching = task[t].watching]
  <2>1. task[t].watching \in BOOLEAN
    BY InvFacts DEF FrameShape
  <2>2. SoundFrame(f, Seen, provider)
    BY <2>1, IdleTaskSound DEF Stages
  <2>3. task' = [task EXCEPT ![t] = f]
    BY <1>1
  <2> HIDE DEF f
  <2> QED
    BY <2>2, <2>3, InvFacts, TaskMoves
<1>2. CASE ~(t \in Workers /\ ~task[t].resync /\ Handling(t).kind = "mail_changed")
  BY <1>2, InvFacts, EndPreserves DEF Fails
<1> QED
  BY <1>1, <1>2

LEMMA RecordHeaderPreserves ==
  ASSUME CursorInv, NEW t \in Tasks, NEW m \in Positions, RecordHeader(t, m)
  PROVE  CursorInv'
<1> DEFINE todo == task[t].todo \ {m}
           page == IF row[m] = "imported" THEN task[t].page \ {m} ELSE task[t].page
           f == [task[t] EXCEPT !.todo = todo, !.page = page]
<1>1. /\ row \in [Positions -> {"absent", "listed", "imported"}]
      /\ SoundFrame(task[t], Seen, provider)
      /\ task[t] \in FrameShape
  BY InvFacts DEF CursorInv, MailboxTyped
<1>2. /\ row' \in [Positions -> {"absent", "listed", "imported"}]
      /\ \A k \in Positions : row[k] # "absent" => row'[k] # "absent"
      /\ row'[m] # "absent"
  BY <1>1 DEF RecordHeader
<1>3. task' = [task EXCEPT ![t] = f] /\ task[t].stage = "headers"
  BY DEF RecordHeader
<1>4. todo \in SUBSET Positions /\ page \in SUBSET Positions
  BY <1>1 DEF FrameShape
<1>5. Seen \cup task[t].todo \subseteq Seen' \cup todo
  BY <1>2 DEF RecordHeader, Seen
<1> HIDE DEF todo, page
<1>6. /\ f \in FrameShape
      /\ f.stage = "headers" /\ f.todo = todo /\ f.cursor = task[t].cursor
  BY <1>1, <1>3, <1>4 DEF FrameShape
<1> HIDE DEF f
<1>7. SoundFrame(f, Seen', provider)
  BY <1>1, <1>3, <1>5, <1>6 DEF SoundFrame, Todo
<1> QED
  BY <1>2, <1>3, <1>7, RowsGrow DEF RecordHeader, providerVars

LEMMA ReadSourcesPreserves ==
  ASSUME CursorInv, NEW t \in Tasks, ReadSources(t)
  PROVE  CursorInv'
<1> DEFINE todo == {m \in task[t].page : SenderOf[m] \in confirmed}
           f == [task[t] EXCEPT !.stage = "import", !.page = {}, !.todo = todo]
<1>1. SoundFrame(task[t], Seen, provider) /\ task[t] \in FrameShape
  BY InvFacts
<1>2. task[t].todo = {} /\ task' = [task EXCEPT ![t] = f]
  BY DEF ReadSources
<1>3. todo \in SUBSET Positions
  BY <1>1 DEF FrameShape
<1> HIDE DEF todo
<1>4. f \in FrameShape /\ f.cursor = task[t].cursor
  BY <1>1, <1>3 DEF FrameShape, Stages
<1> HIDE DEF f
<1>5. SoundFrame(f, Seen, provider)
  BY <1>1, <1>2, <1>4 DEF SoundFrame, Todo
<1> QED
  BY <1>2, <1>5, InvFacts, TaskMoves DEF ReadSources, providerVars, storeVars

(* A message that leaves what is to be imported.                           *)
LEMMA TodoShrinks ==
  ASSUME CursorInv, NEW t \in Tasks, task[t].stage = "import", NEW m
  PROVE  SoundFrame([task[t] EXCEPT !.todo = task[t].todo \ {m}], Seen, provider)
<1> DEFINE f == [task[t] EXCEPT !.todo = task[t].todo \ {m}]
<1>1. SoundFrame(task[t], Seen, provider) /\ task[t] \in FrameShape
  BY InvFacts
<1>2. f \in FrameShape /\ f.cursor = task[t].cursor /\ f.stage = "import"
  BY <1>1 DEF FrameShape
<1> HIDE DEF f
<1>3. SoundFrame(f, Seen, provider)
  BY <1>1, <1>2 DEF SoundFrame, Todo
<1> QED
  BY <1>3 DEF f

LEMMA ImportPreserves ==
  ASSUME CursorInv, NEW t \in Tasks, NEW m \in Positions, Import(t, m)
  PROVE  CursorInv'
<1> DEFINE f == [task[t] EXCEPT !.todo = task[t].todo \ {m}]
<1>1. SoundFrame(f, Seen, provider)
  BY TodoShrinks DEF Import
<1>2. row \in [Positions -> {"absent", "listed", "imported"}]
  BY DEF CursorInv, MailboxTyped
<1>3. /\ row' \in [Positions -> {"absent", "listed", "imported"}]
      /\ \A k \in Positions : row[k] # "absent" => row'[k] # "absent"
  BY <1>2 DEF Import
<1>4. Seen \subseteq Seen'
  BY <1>3 DEF Seen, Import
<1>5. task' = [task EXCEPT ![t] = f]
  BY DEF Import
<1> HIDE DEF f
<1>6. SoundFrame(f, Seen', provider)
  BY <1>1, <1>4, SoundnessGrows
<1> QED
  BY <1>3, <1>5, <1>6, RowsGrow DEF Import, providerVars

LEMMA ImportFailsPreserves ==
  ASSUME CursorInv, NEW t \in Tasks, NEW m \in Positions, ImportFails(t, m)
  PROVE  CursorInv'
<1> DEFINE f == [task[t] EXCEPT !.todo = task[t].todo \ {m}]
<1>1. SoundFrame(f, Seen, provider)
  BY TodoShrinks DEF ImportFails
<1>2. task' = [task EXCEPT ![t] = f]
  BY DEF ImportFails
<1> HIDE DEF f
<1> QED
  BY <1>1, <1>2, InvFacts, TaskMoves DEF ImportFails, providerVars, storeVars

LEMMA SaveCursorPreserves ==
  ASSUME CursorInv, NEW t \in Tasks, SaveCursor(t)
  PROVE  CursorInv'
<1>1. task[t].stage = "import" /\ cursor' = task[t].cursor
  BY DEF SaveCursor, PageDone
<1>2. Sound(cursor', Seen, provider)
  BY <1>1, InvFacts, SoundFrameMoves DEF Stages
<1>3. UNCHANGED <<provider, arrived, watched, row, renewal, subscription>>
  BY DEF SaveCursor, providerVars
<1>4. CASE t \in Workers
  <2>1. PICK st \in {"due", "checkpoint"} : GoTo(t, st)
    BY <1>4 DEF SaveCursor
  <2> QED
    BY <2>1, <1>1, <1>2, <1>3, InvFacts, StageMoves DEF Stages
<1>5. CASE t \notin Workers
  BY <1>5, <1>2, <1>3, InvFacts, EndPreserves DEF SaveCursor, Succeeds
<1> QED
  BY <1>4, <1>5

LEMMA SyncStepPreserves ==
  ASSUME CursorInv, NEW t \in Tasks, SyncStep(t)
  PROVE  CursorInv'
<1>1. CASE OpenConflict(t)
  BY <1>1, InvFacts, EndPreserves DEF OpenConflict, Fails, providerVars, storeVars
<1>2. CASE ListFails(t)
  BY <1>2, InvFacts, EndPreserves DEF ListFails, Fails, providerVars, storeVars
<1>3. CASE Refused(t)
  BY <1>3, InvFacts, EndPreserves DEF Refused, Fails, providerVars
<1> QED
  BY <1>1, <1>2, <1>3, OpenPreserves, ListPagePreserves, ListForgottenPreserves,
     RecordHeaderPreserves, ReadSourcesPreserves, ImportPreserves, ImportFailsPreserves,
     SaveCursorPreserves DEF SyncStep

LEMMA BeginMailPreserves ==
  ASSUME CursorInv, NEW w \in Tasks, BeginMail(w)
  PROVE  CursorInv'
<1> DEFINE active == subscription.status = "active"
           st == IF active /\ subscription.cursor # NoCursor THEN "open" ELSE "stored"
           c == IF active THEN subscription.cursor ELSE NoCursor
           f == [IdleTask EXCEPT !.stage = st, !.cursor = c, !.watching = active]
<1>1. Sound(c, Seen, provider)
  BY InvFacts, NoCursorSound
<1>2. c \in Cursors /\ active \in BOOLEAN /\ st \in Stages
  BY <1>1 DEF Sound, Good, Stages
<1>3. IdleTask \in FrameShape
  BY IdleTaskSound DEF SoundFrame
<1>4. task' = [task EXCEPT ![w] = f]
  BY DEF BeginMail
<1> HIDE DEF c, active, st
<1>5. f \in FrameShape /\ f.cursor = c
  BY <1>2, <1>3 DEF FrameShape
<1> HIDE DEF f
<1>6. SoundFrame(f, Seen, provider)
  BY <1>1, <1>5 DEF SoundFrame, Sound
<1> QED
  BY <1>4, <1>6, InvFacts, TaskMoves DEF BeginMail, providerVars, storeVars

LEMMA ChooseStoredPreserves ==
  ASSUME CursorInv, NEW w \in Tasks, ChooseStored(w)
  PROVE  CursorInv'
<1> DEFINE f == [task[w] EXCEPT !.stage = "open", !.cursor = cursor]
<1>1. Sound(cursor, Seen, provider) /\ task[w] \in FrameShape
  BY InvFacts
<1>2. f \in FrameShape /\ f.cursor = cursor
  BY <1>1 DEF FrameShape, Stages, Sound, Good
<1>3. task' = [task EXCEPT ![w] = f]
  BY DEF ChooseStored
<1> HIDE DEF f
<1>4. SoundFrame(f, Seen, provider)
  BY <1>1, <1>2 DEF SoundFrame, Sound
<1> QED
  BY <1>3, <1>4, InvFacts, TaskMoves DEF ChooseStored, providerVars, storeVars

LEMMA SubscriptionWithout ==
  /\ [status |-> "renewal_due", cursor |-> NoCursor] \in Subscription
  /\ [status |-> "none", cursor |-> NoCursor] \in Subscription
  BY NoCursorSound DEF Subscription

(* The events a worker handles.                                            *)
LEMMA EventStepsPreserve ==
  ASSUME CursorInv, NEW w \in Tasks,
         \/ BeginMissed(w) \/ BeginReauthorization(w)
         \/ MarkRenewalDue(w) \/ ReadActive(w) \/ RecordCheckpoint(w)
  PROVE  CursorInv'
<1> USE DEF providerVars, storeVars
<1>1. CASE BeginMissed(w)
  <2>1. task[w].stage = "next" /\ GoTo(w, "open")
    BY <1>1 DEF BeginMissed, Begins
  <2> QED
    BY <1>1, <2>1, InvFacts, StageMoves DEF BeginMissed, Stages
<1>2. CASE BeginReauthorization(w)
  BY <1>2, InvFacts, EndPreserves DEF BeginReauthorization, Succeeds
<1>3. CASE MarkRenewalDue(w)
  <2>1. task[w].stage = "due" /\ GoTo(w, "checkpoint")
    BY <1>3 DEF MarkRenewalDue
  <2>2. /\ subscription' \in Subscription
        /\ Sound(subscription'.cursor, Seen, provider)
    BY <1>3, SubscriptionWithout, NoCursorSound DEF MarkRenewalDue
  <2> QED
    BY <1>3, <2>1, <2>2, InvFacts, StageMoves DEF MarkRenewalDue, Stages
<1>4. CASE ReadActive(w)
  <2>1. task[w].stage \in {"checkpoint", "next"}
    BY <1>4 DEF ReadActive, Begins
  <2>2. CASE GoTo(w, "record")
    BY <1>4, <2>1, <2>2, InvFacts, StageMoves DEF ReadActive, Stages
  <2>3. CASE Succeeds(w)
    BY <1>4, <2>3, InvFacts, EndPreserves DEF ReadActive, Succeeds
  <2> QED
    BY <1>4, <2>2, <2>3 DEF ReadActive
<1>5. CASE RecordCheckpoint(w)
  <2>1. task[w].stage = "record"
    BY <1>5 DEF RecordCheckpoint
  <2>2. Sound(task[w].cursor, Seen, provider)
    BY <2>1, InvFacts, SoundFrameMoves DEF Stages
  <2>3. \/ subscription' = [subscription EXCEPT !.status = "renewal_due"]
        \/ subscription' = [status |-> "renewal_due", cursor |-> NoCursor]
        \/ subscription' = [subscription EXCEPT !.cursor = task[w].cursor]
    BY <1>5 DEF RecordCheckpoint
  <2>4. task[w].cursor \in Cursors
    BY <2>2 DEF Sound, Good
  <2>5. /\ subscription' \in Subscription
        /\ subscription'.cursor \in {subscription.cursor, NoCursor, task[w].cursor}
    BY <2>3, <2>4, InvFacts, SubscriptionWithout DEF Subscription
  <2>6. Sound(subscription'.cursor, Seen, provider)
    BY <2>2, <2>5, InvFacts, NoCursorSound
  <2> QED
    BY <1>5, <2>5, <2>6, InvFacts, EndPreserves DEF RecordCheckpoint, Succeeds
<1> QED
  BY <1>1, <1>2, <1>3, <1>4, <1>5

(* The invocations of the handler.                                         *)
LEMMA InvocationStepsPreserve ==
  ASSUME CursorInv, NEW w \in Tasks,
         \/ \E first, last \in DOMAIN queue : Receive(w, first, last)
         \/ Report(w) \/ WorkerCrashes(w)
  PROVE  CursorInv'
<1> USE DEF providerVars, storeVars, queueVars
<1>1. ASSUME NEW first, NEW last, Receive(w, first, last)  PROVE CursorInv'
  <2>1. task[w].stage = "idle" /\ GoTo(w, "next")
    BY <1>1 DEF Receive
  <2> QED
    BY <1>1, <2>1, InvFacts, StageMoves DEF Receive, Stages
<1>2. CASE Report(w)
  BY <1>2, InvFacts, IdleTaskSound, TaskMoves DEF Report
<1>3. CASE WorkerCrashes(w)
  BY <1>3, InvFacts, IdleTaskSound, TaskMoves DEF WorkerCrashes
<1> QED
  BY <1>1, <1>2, <1>3

(* Steps that leave tasks, rows, cursors and watches alone.                *)
LEMMA RestPreserves ==
  ASSUME CursorInv,
         UNCHANGED <<provider, row, task, watched, cursor, renewal>>,
         arrived' \in 0..MaxMessages,
         subscription' \in Subscription, subscription'.cursor = subscription.cursor
  PROVE  CursorInv'
<1>1. Seen' = Seen
  BY DEF Seen
<1>2. watched' \in Nat /\ watched <= watched'
  BY DEF CursorInv, MailboxTyped
<1>3. RenewalsSound'
  BY DEF CursorInv, RenewalsSound
<1> QED
  BY <1>1, <1>2, <1>3, InvFacts, TasksRest

LEMMA EnvironmentPreserves ==
  ASSUME CursorInv, Environment \/ \E w \in Workers : VisibilityExpires(w)
  PROVE  CursorInv'
<1> USE DEF providerVars, storeVars, queueVars
<1>1. arrived \in 0..MaxMessages /\ MaxMessages \in Nat /\ subscription \in Subscription
  BY InboxAssumption, InvFacts DEF CursorInv, MailboxTyped
<1>2. CASE Arrive
  BY <1>1, <1>2, RestPreserves DEF Arrive
<1>3. CASE Forget
  BY <1>1, <1>3, RestPreserves DEF Forget
<1>4. CASE Disconnect
  BY <1>1, <1>4, RestPreserves DEF Disconnect
<1>5. ASSUME NEW s, NEW d, SetSourceStatus(s, d)  PROVE CursorInv'
  BY <1>1, <1>5, RestPreserves DEF SetSourceStatus
<1>6. ASSUME NEW e, Enqueue(e)  PROVE CursorInv'
  BY <1>1, <1>6, RestPreserves DEF Enqueue
<1>7. ASSUME NEW w, VisibilityExpires(w)  PROVE CursorInv'
  BY <1>1, <1>7, RestPreserves DEF VisibilityExpires
<1> QED
  BY <1>2, <1>3, <1>4, <1>5, <1>6, <1>7
  DEF Environment, Mailbox, Routes, Webhooks, NotifyMail, NotifyLifecycle

(* Steps of a registration: the watch changes, and what the registration   *)
(* carries.                                                                *)
LEMMA RenewalMoves ==
  ASSUME CursorInv, NEW r \in Renewers, NEW x \in Renewal, Good(x.cursor, provider),
         renewal' = [renewal EXCEPT ![r] = x],
         UNCHANGED <<provider, row, task, arrived, watched, cursor>>,
         subscription' \in Subscription, subscription'.cursor = subscription.cursor
  PROVE  CursorInv'
<1>1. Seen' = Seen
  BY DEF Seen
<1>2. /\ watched' \in Nat /\ watched <= watched'
      /\ arrived' \in 0..MaxMessages
  BY DEF CursorInv, MailboxTyped
<1>3. RenewalsSound'
  BY DEF CursorInv, RenewalsSound
<1> QED
  BY <1>1, <1>2, <1>3, InvFacts, TasksRest

LEMMA IdleRenewalGood ==
  ASSUME NEW p
  PROVE  IdleRenewal \in Renewal /\ Good(IdleRenewal.cursor, p)
<1>1. NoCursor \in Cursors /\ Good(NoCursor, p)
  BY NoCursorSound DEF Sound
<1> QED
  BY <1>1 DEF IdleRenewal, Renewal

LEMMA StoreWatchPreserves ==
  ASSUME CursorInv, NEW r \in Renewers, StoreWatch(r)
  PROVE  CursorInv'
<1> DEFINE c == renewal[r].cursor
<1>1. /\ arrived \in 0..MaxMessages /\ watched \in Nat /\ MaxMessages \in Nat
      /\ renewal \in [Renewers -> Renewal]
      /\ \A q \in Renewers : Good(renewal[q].cursor, provider)
  BY InboxAssumption DEF CursorInv, MailboxTyped, RenewalsSound
<1>2. /\ watched' = IF c.at > watched THEN c.at ELSE watched
      /\ subscription' = [status |-> "active", cursor |-> c]
      /\ renewal' = [renewal EXCEPT ![r] = IdleRenewal]
      /\ UNCHANGED <<provider, row, task, arrived, cursor>>
  BY DEF StoreWatch, providerVars
<1>3. Good(c, provider) /\ c \in Cursors /\ c.at \in 0..MaxMessages
  BY <1>1 DEF Good, Cursors
<1> HIDE DEF c
<1>4. watched' \in Nat /\ watched <= watched' /\ c.at <= watched'
  BY <1>1, <1>2, <1>3
<1>5. Seen \subseteq Seen' /\ 1..c.at \subseteq Seen'
  BY <1>1, <1>2, <1>3, <1>4 DEF Seen, Positions
<1>6. subscription' \in Subscription /\ subscription'.cursor = c
  BY <1>2, <1>3 DEF Subscription
<1>7. Sound(c, Seen', provider) /\ Sound(cursor', Seen', provider)
  BY <1>2, <1>3, <1>5, InvFacts, SoundnessGrows DEF Sound
<1>8. RenewalsSound'
  BY <1>1, <1>2, IdleRenewalGood DEF RenewalsSound
<1> QED
  BY <1>1, <1>2, <1>4, <1>6, <1>7, <1>8, TasksRest

LEMMA RegisterPreserves ==
  ASSUME CursorInv, NEW r \in Renewers, Register(r)
  PROVE  CursorInv'
<1> DEFINE c == IF provider = "gmail" THEN After(arrived) ELSE NoCursor
           x == [renewal[r] EXCEPT !.stage = "store", !.cursor = c]
<1>1. c \in Cursors /\ Good(c, provider)
  BY NoCursorSound DEF CursorInv, MailboxTyped, After, Cursors, Good, Sound
<1>2. renewal' = [renewal EXCEPT ![r] = x]
  BY DEF Register
<1>3. renewal[r] \in Renewal
  BY DEF CursorInv, RenewalsSound
<1> HIDE DEF c
<1>4. x \in Renewal /\ x.cursor = c
  BY <1>1, <1>3 DEF Renewal
<1> HIDE DEF x
<1> QED
  BY <1>1, <1>2, <1>4, InvFacts, RenewalMoves DEF Register, storeVars

LEMMA WatchPreserves ==
  ASSUME CursorInv, NEW r \in Renewers, Watch(r)
  PROVE  CursorInv'
<1> USE DEF providerVars, storeVars
<1>1. renewal[r] \in Renewal /\ Good(renewal[r].cursor, provider)
  BY DEF CursorInv, RenewalsSound
<1>2. IdleRenewal \in Renewal /\ Good(IdleRenewal.cursor, provider)
  BY IdleRenewalGood
<1>3. subscription \in Subscription
  BY InvFacts
<1>4. CASE RenewDue(r)
  <2> DEFINE x == [IdleRenewal EXCEPT !.stage = "register", !.due = TRUE]
  <2>1. x \in Renewal /\ x.cursor = IdleRenewal.cursor
    BY <1>2 DEF Renewal
  <2>2. renewal' = [renewal EXCEPT ![r] = x]
    BY <1>4 DEF RenewDue
  <2> HIDE DEF x
  <2> QED
    BY <1>2, <1>3, <1>4, <2>1, <2>2, RenewalMoves DEF RenewDue
<1>5. CASE EnsureSubscription(r)
  <2> DEFINE x == [renewal[r] EXCEPT !.stage = "register"]
  <2>1. x \in Renewal /\ x.cursor = renewal[r].cursor
    BY <1>1 DEF Renewal
  <2>2. renewal' = [renewal EXCEPT ![r] = x]
    BY <1>5 DEF EnsureSubscription
  <2> HIDE DEF x
  <2> QED
    BY <1>1, <1>3, <1>5, <2>1, <2>2, RenewalMoves DEF EnsureSubscription
<1>6. CASE RegisterFails(r)
  <2>1. subscription' \in Subscription /\ subscription'.cursor = subscription.cursor
    BY <1>3, <1>6 DEF RegisterFails, Subscription
  <2> QED
    BY <1>2, <1>6, <2>1, RenewalMoves DEF RegisterFails
<1>7. CASE RegisterRefused(r)
  <2>1. subscription' \in Subscription /\ subscription'.cursor = subscription.cursor
    BY <1>3, <1>7 DEF RegisterRefused, Subscription
  <2> DEFINE x == IF renewal[r].due THEN [renewal[r] EXCEPT !.stage = "refused"]
                                    ELSE IdleRenewal
  <2>2. x \in Renewal /\ Good(x.cursor, provider)
    BY <1>1, <1>2 DEF Renewal
  <2>3. renewal' = [renewal EXCEPT ![r] = x]
    BY <1>7 DEF RegisterRefused
  <2> HIDE DEF x
  <2> QED
    BY <1>7, <2>1, <2>2, <2>3, RenewalMoves DEF RegisterRefused
<1>8. CASE RequireReauthorization(r)
  BY <1>2, <1>3, <1>8, RenewalMoves DEF RequireReauthorization
<1> QED
  BY <1>4, <1>5, <1>6, <1>7, <1>8, RegisterPreserves, StoreWatchPreserves DEF Watch

-----------------------------------------------------------------------------
(* NothingPassedOver                                                       *)

LEMMA CursorInit ==
  ASSUME Init  PROVE CursorInv
<1> USE DEF Init
<1>1. MailboxTyped
  BY InboxAssumption DEF MailboxTyped
<1>2. StoredSound
  BY NoCursorSound, SubscriptionWithout DEF StoredSound
<1>3. FramesSound
  BY IdleTaskSound DEF FramesSound, SoundFrame
<1>4. RenewalsSound
  BY IdleRenewalGood DEF RenewalsSound
<1> QED
  BY <1>1, <1>2, <1>3, <1>4 DEF CursorInv

LEMMA CursorInvStep ==
  ASSUME CursorInv, [Next]_vars  PROVE CursorInv'
<1>1. CASE UNCHANGED vars
  BY <1>1, RestPreserves, InvFacts DEF CursorInv, MailboxTyped, vars, providerVars, storeVars
<1>2. ASSUME NEW t \in Manuals, SyncStep(t)  PROVE CursorInv'
  BY <1>2, SyncStepPreserves DEF Tasks
<1>3. ASSUME NEW w \in Workers, Handle(w) \/ WorkerCrashes(w)  PROVE CursorInv'
  <2>1. w \in Tasks
    BY DEF Tasks
  <2> QED
    BY <1>3, <2>1, BeginMailPreserves, ChooseStoredPreserves, EventStepsPreserve,
       InvocationStepsPreserve, SyncStepPreserves DEF Handle
<1>4. ASSUME NEW r \in Renewers, Watch(r)  PROVE CursorInv'
  BY <1>4, WatchPreserves
<1> QED
  BY <1>1, <1>2, <1>3, <1>4, EnvironmentPreserves DEF Next

(* Whatever syncs, events and renewals overlap, fail, die or are repeated, *)
(* a stored history id or delta link has nothing unlisted before it but    *)
(* what Gmail's watch passed over when it was registered.                  *)
THEOREM InboxNothingPassedOver == Spec => []NothingPassedOver
<1>1. Init => CursorInv
  BY CursorInit
<1>2. CursorInv /\ [Next]_vars => CursorInv'
  BY CursorInvStep
<1>3. CursorInv => NothingPassedOver
  BY InvFacts DEF NothingPassedOver, Sound, Seen
<1> QED
  BY <1>1, <1>2, <1>3, PTL DEF Spec

-----------------------------------------------------------------------------
(* ActiveWatchHasCursor                                                    *)

Syncing == {"stored", "open", "list", "headers", "import", "due", "checkpoint"}

(* The event a frame belongs to: only one that looked for mail, or missed  *)
(* it, syncs, and a checkpoint is to be written only where there is one.   *)
Belongs(f, e) ==
  /\ f.stage \in Syncing => e.kind \in {"mail_changed", "missed"}
  /\ f.stage = "record" => \/ e.kind \in {"subscription_removed", "missed"}
                           \/ f.cursor # NoCursor

HandlingInv ==
  /\ DOMAIN job = Workers
  /\ \A w \in Workers : Belongs(task[w], Handling(w))

RegisteredInv ==
  \A r \in Renewers :
    provider = "gmail" /\ renewal[r].stage = "store" => renewal[r].cursor # NoCursor

WatchInv == CursorInv /\ HandlingInv /\ RegisteredInv /\ ActiveWatchHasCursor

LEMMA FrameMoves ==
  ASSUME CursorInv, HandlingInv, NEW t \in Tasks, NEW f,
         task' = [task EXCEPT ![t] = f],
         DOMAIN job' = Workers,
         \A w \in Workers \ {t} : job'[w] = job[w],
         t \in Workers => Belongs(f, Handling(t)')
  PROVE  HandlingInv'
<1>1. DOMAIN task = Tasks
  BY DEF CursorInv, FramesSound
<1>2. ASSUME NEW w \in Workers  PROVE Belongs(task'[w], Handling(w)')
  <2>1. w \in Tasks
    BY DEF Tasks
  <2>2. CASE w = t
    BY <1>1, <2>1, <2>2
  <2>3. CASE w # t
    <3>1. task'[w] = task[w] /\ Handling(w)' = Handling(w)
      BY <1>1, <2>1, <2>3 DEF Handling
    <3> QED
      BY <3>1 DEF HandlingInv
  <2> QED
    BY <2>2, <2>3
<1> QED
  BY <1>2 DEF HandlingInv

(* A frame that goes back to the handler, or away.                         *)
LEMMA FrameEnds ==
  ASSUME CursorInv, HandlingInv, NEW t \in Tasks,
         Ends(t) \/ task' = [task EXCEPT ![t] = IdleTask],
         DOMAIN job' = Workers,
         \A w \in Workers \ {t} : job'[w] = job[w]
  PROVE  HandlingInv'
<1>1. PICK x \in {IdleTask, [IdleTask EXCEPT !.stage = "next"]} :
        task' = [task EXCEPT ![t] = x]
  BY DEF Ends
<1>2. x.stage \in {"idle", "next"}
  BY DEF IdleTask
<1>3. Belongs(x, Handling(t)')
  BY <1>2 DEF Belongs, Syncing
<1> QED
  BY <1>1, <1>3, FrameMoves

LEMMA TaskEnds ==
  ASSUME CursorInv, HandlingInv, NEW t \in Tasks, Succeeds(t) \/ Fails(t)
  PROVE  HandlingInv'
<1>1. /\ DOMAIN job' = Workers
      /\ \A w \in Workers \ {t} : job'[w] = job[w]
  BY DEF HandlingInv, Succeeds, Fails
<1> QED
  BY <1>1, FrameEnds DEF Succeeds, Fails

(* A frame that goes on with its event.                                    *)
LEMMA FrameGoesOn ==
  ASSUME CursorInv, HandlingInv, NEW t \in Tasks, NEW f,
         task' = [task EXCEPT ![t] = f], UNCHANGED job,
         t \in Workers => task[t].stage \in Syncing,
         f.stage \in Syncing
  PROVE  HandlingInv'
<1>1. DOMAIN job' = Workers /\ \A w \in Workers \ {t} : job'[w] = job[w]
  BY DEF HandlingInv
<1>2. ASSUME t \in Workers  PROVE Belongs(f, Handling(t)')
  <2>1. Handling(t)' = Handling(t)
    BY DEF Handling
  <2> QED
    BY <1>2, <2>1 DEF HandlingInv, Belongs, Syncing
<1> QED
  BY <1>1, <1>2, FrameMoves

LEMMA SyncStepBelongs ==
  ASSUME CursorInv, HandlingInv, NEW t \in Tasks, SyncStep(t)
  PROVE  HandlingInv'
<1>1. task[t] \in FrameShape
  BY InvFacts
<1>2. t \in Workers => t \notin Manuals
  BY InboxAssumption
<1>3. CASE Open(t)
  <2> DEFINE f == [task[t] EXCEPT !.stage = "list",
                                  !.cursor = IF t \in Manuals THEN cursor
                                                              ELSE task[t].cursor]
  <2>1. task' = [task EXCEPT ![t] = f] /\ UNCHANGED job
    BY <1>3 DEF Open
  <2>2. f.stage = "list" /\ (t \in Workers => task[t].stage = "open")
    BY <1>1, <1>2, <1>3 DEF Open, FrameShape
  <2> HIDE DEF f
  <2> QED
    BY <2>1, <2>2, FrameGoesOn DEF Syncing
<1>4. CASE ListPage(t)
  <2>1. PICK f : task' = [task EXCEPT ![t] = f] /\ f.stage = "headers"
    <3> DEFINE n == NextCursor(task[t].cursor)
               h == HasMore(task[t].cursor)
               p == Page(task[t].cursor)
               f == [task[t] EXCEPT !.stage = "headers", !.cursor = n, !.more = h,
                            !.pages = task[t].pages + 1, !.page = p, !.todo = p]
    <3>1. task' = [task EXCEPT ![t] = f]
      BY <1>4 DEF ListPage
    <3> HIDE DEF n, h, p
    <3>2. f.stage = "headers"
      BY <1>1 DEF FrameShape
    <3> QED
      BY <3>1, <3>2
  <2>2. UNCHANGED job /\ task[t].stage \in {"list", "import"}
    BY <1>4 DEF ListPage, Lists, PageDone
  <2> QED
    BY <2>1, <2>2, FrameGoesOn DEF Syncing
<1>5. CASE ListForgotten(t)
  <2>1. CASE t \in Workers /\ ~task[t].resync /\ Handling(t).kind = "mail_changed"
    <3> DEFINE f == [IdleTask EXCEPT !.stage = "open", !.resync = TRUE,
                                     !.watching = task[t].watching]
    <3>1. task' = [task EXCEPT ![t] = f] /\ UNCHANGED job
      BY <1>5, <2>1 DEF ListForgotten
    <3>2. f.stage = "open" /\ task[t].stage \in {"list", "import"}
      BY <1>5 DEF ListForgotten, Lists, PageDone, IdleTask
    <3> HIDE DEF f
    <3> QED
      BY <3>1, <3>2, FrameGoesOn DEF Syncing
  <2>2. CASE Fails(t)
    BY <2>2, TaskEnds
  <2> QED
    BY <1>5, <2>1, <2>2 DEF ListForgotten
<1>6. ASSUME NEW m \in Positions, RecordHeader(t, m) PROVE HandlingInv'
  <2> DEFINE page == IF row[m] = "imported" THEN task[t].page \ {m} ELSE task[t].page
             f == [task[t] EXCEPT !.todo = task[t].todo \ {m}, !.page = page]
  <2>1. task' = [task EXCEPT ![t] = f] /\ UNCHANGED job /\ task[t].stage = "headers"
    BY <1>6 DEF RecordHeader
  <2> HIDE DEF page
  <2>2. f.stage = "headers"
    BY <1>1, <2>1 DEF FrameShape
  <2> HIDE DEF f
  <2> QED
    BY <2>1, <2>2, FrameGoesOn DEF Syncing
<1>7. CASE ReadSources(t)
  <2> DEFINE todo == {m \in task[t].page : SenderOf[m] \in confirmed}
             f == [task[t] EXCEPT !.stage = "import", !.page = {}, !.todo = todo]
  <2>1. task' = [task EXCEPT ![t] = f] /\ UNCHANGED job /\ task[t].stage = "headers"
    BY <1>7 DEF ReadSources
  <2> HIDE DEF todo
  <2>2. f.stage = "import"
    BY <1>1 DEF FrameShape
  <2> HIDE DEF f
  <2> QED
    BY <2>1, <2>2, FrameGoesOn DEF Syncing
<1>8. ASSUME NEW m \in Positions, Import(t, m) \/ ImportFails(t, m)  PROVE HandlingInv'
  <2> DEFINE f == [task[t] EXCEPT !.todo = task[t].todo \ {m}]
  <2>1. task' = [task EXCEPT ![t] = f] /\ UNCHANGED job /\ task[t].stage = "import"
    BY <1>8 DEF Import, ImportFails
  <2>2. f.stage = "import"
    BY <1>1, <2>1 DEF FrameShape
  <2> HIDE DEF f
  <2> QED
    BY <2>1, <2>2, FrameGoesOn DEF Syncing
<1>9. CASE SaveCursor(t)
  <2>1. task[t].stage = "import"
    BY <1>9 DEF SaveCursor, PageDone
  <2>2. CASE t \in Workers
    <3>1. PICK st \in {"due", "checkpoint"} : GoTo(t, st)
      BY <1>9, <2>2 DEF SaveCursor
    <3> DEFINE f == [task[t] EXCEPT !.stage = st]
    <3>2. task' = [task EXCEPT ![t] = f] /\ UNCHANGED job
      BY <1>9, <2>2, <3>1 DEF SaveCursor, GoTo
    <3>3. f.stage = st
      BY <1>1 DEF FrameShape
    <3> HIDE DEF f
    <3> QED
      BY <2>1, <3>2, <3>3, FrameGoesOn DEF Syncing
  <2>3. CASE t \notin Workers
    BY <1>9, <2>3, TaskEnds DEF SaveCursor
  <2> QED
    BY <2>2, <2>3
<1>10. CASE OpenConflict(t) \/ ListFails(t) \/ Refused(t)
  BY <1>10, TaskEnds DEF OpenConflict, ListFails, Refused
<1> QED
  BY <1>3, <1>4, <1>5, <1>6, <1>7, <1>8, <1>9, <1>10 DEF SyncStep

LEMMA HandleBelongs ==
  ASSUME CursorInv, HandlingInv, NEW w \in Workers, Handle(w) \/ WorkerCrashes(w)
  PROVE  HandlingInv'
<1>1. w \in Tasks /\ task[w] \in FrameShape
  BY InvFacts DEF Tasks
<1>2. DOMAIN job = Workers /\ Belongs(task[w], Handling(w))
  BY DEF HandlingInv
<1>3. ASSUME NEW first, NEW last, Receive(w, first, last)  PROVE HandlingInv'
  <2> DEFINE f == [task[w] EXCEPT !.stage = "next"]
  <2>1. task' = [task EXCEPT ![w] = f]
    BY <1>3 DEF Receive, GoTo
  <2>2. DOMAIN job' = Workers /\ \A v \in Workers \ {w} : job'[v] = job[v]
    BY <1>2, <1>3 DEF Receive
  <2>3. f.stage = "next"
    BY <1>1 DEF FrameShape
  <2> HIDE DEF f
  <2>4. Belongs(f, Handling(w)')
    BY <2>3 DEF Belongs, Syncing
  <2> QED
    BY <1>1, <2>1, <2>2, <2>4, FrameMoves
<1>4. CASE BeginMail(w) \/ BeginMissed(w)
  <2>1. PICK f : task' = [task EXCEPT ![w] = f] /\ f.stage \in {"open", "stored"}
    <3>1. CASE BeginMail(w)
      <4> DEFINE active == subscription.status = "active"
                 st == IF active /\ subscription.cursor # NoCursor THEN "open" ELSE "stored"
                 c == IF active THEN subscription.cursor ELSE NoCursor
                 f == [IdleTask EXCEPT !.stage = st, !.cursor = c, !.watching = active]
      <4>1. task' = [task EXCEPT ![w] = f]
        BY <3>1 DEF BeginMail
      <4>2. st \in {"open", "stored"}
        OBVIOUS
      <4> HIDE DEF st, c, active
      <4>3. f.stage = st
        BY DEF IdleTask
      <4> QED
        BY <4>1, <4>2, <4>3
    <3>2. CASE BeginMissed(w)
      <4> DEFINE f == [task[w] EXCEPT !.stage = "open"]
      <4>1. task' = [task EXCEPT ![w] = f]
        BY <3>2 DEF BeginMissed, GoTo
      <4>2. f.stage = "open"
        BY <1>1 DEF FrameShape
      <4> HIDE DEF f
      <4> QED
        BY <4>1, <4>2
    <3> QED
      BY <1>4, <3>1, <3>2
  <2>2. UNCHANGED job /\ Handling(w).kind \in {"mail_changed", "missed"}
    BY <1>4 DEF BeginMail, BeginMissed, Begins
  <2>3. Handling(w)' = Handling(w)
    BY <2>2 DEF Handling
  <2>4. Belongs(f, Handling(w)')
    BY <2>1, <2>2, <2>3 DEF Belongs, Syncing
  <2> QED
    BY <1>1, <1>2, <2>1, <2>2, <2>4, FrameMoves
<1>5. CASE ChooseStored(w)
  <2> DEFINE f == [task[w] EXCEPT !.stage = "open", !.cursor = cursor]
  <2>1. task' = [task EXCEPT ![w] = f] /\ UNCHANGED job /\ task[w].stage = "stored"
    BY <1>5 DEF ChooseStored
  <2>2. f.stage = "open"
    BY <1>1 DEF FrameShape
  <2> HIDE DEF f
  <2> QED
    BY <1>1, <2>1, <2>2, FrameGoesOn DEF Syncing
<1>6. CASE MarkRenewalDue(w)
  <2> DEFINE f == [task[w] EXCEPT !.stage = "checkpoint"]
  <2>1. task' = [task EXCEPT ![w] = f] /\ UNCHANGED job /\ task[w].stage = "due"
    BY <1>6 DEF MarkRenewalDue, GoTo
  <2>2. f.stage = "checkpoint"
    BY <1>1 DEF FrameShape
  <2> HIDE DEF f
  <2> QED
    BY <1>1, <2>1, <2>2, FrameGoesOn DEF Syncing
<1>7. CASE ReadActive(w)
  <2>1. CASE /\ subscription.status = "active"
             /\ Handling(w).kind = "mail_changed" => task[w].cursor # NoCursor
    <3> DEFINE f == [task[w] EXCEPT !.stage = "record"]
    <3>1. task' = [task EXCEPT ![w] = f] /\ UNCHANGED job
      BY <1>7, <2>1 DEF ReadActive, GoTo
    <3>2. f.stage = "record" /\ f.cursor = task[w].cursor
      BY <1>1 DEF FrameShape
    <3> HIDE DEF f
    <3>3. Handling(w)' = Handling(w)
      BY <3>1 DEF Handling
    <3>4. CASE task[w].stage = "checkpoint"
      <4>1. Belongs(f, Handling(w))
        BY <1>2, <2>1, <3>2, <3>4 DEF Belongs, Syncing
      <4> QED
        BY <1>1, <1>2, <3>1, <3>3, <4>1, FrameMoves
    <3>5. CASE Begins(w, "subscription_removed")
      <4>1. Belongs(f, Handling(w))
        BY <3>2, <3>5 DEF Begins, Belongs, Syncing
      <4> QED
        BY <1>1, <1>2, <3>1, <3>3, <4>1, FrameMoves
    <3> QED
      BY <1>7, <3>4, <3>5 DEF ReadActive
  <2>2. CASE Succeeds(w)
    BY <1>1, <2>2, TaskEnds
  <2> QED
    BY <1>7, <2>1, <2>2 DEF ReadActive
<1>8. CASE BeginReauthorization(w) \/ RecordCheckpoint(w)
  BY <1>1, <1>8, TaskEnds DEF BeginReauthorization, RecordCheckpoint
<1>9. CASE Report(w) \/ WorkerCrashes(w)
  BY <1>1, <1>2, <1>9, FrameEnds DEF Report, WorkerCrashes
<1> QED
  BY <1>1, <1>3, <1>4, <1>5, <1>6, <1>7, <1>8, <1>9, SyncStepBelongs DEF Handle

(* The watch keeps its cursor where a worker writes to it.                 *)
LEMMA HandleKeepsWatch ==
  ASSUME WatchInv, NEW w \in Workers, Handle(w) \/ WorkerCrashes(w)
  PROVE  ActiveWatchHasCursor' /\ RegisteredInv'
<1>1. subscription \in Subscription /\ w \in Tasks
  BY InvFacts DEF WatchInv, Tasks
<1>2. UNCHANGED <<provider, renewal>>
  BY DEF Handle, WorkerCrashes, Receive, BeginMail, BeginMissed, BeginReauthorization,
         ChooseStored, MarkRenewalDue, ReadActive, RecordCheckpoint, Report, SyncStep, Open,
         OpenConflict, ListPage, ListForgotten, ListFails, RecordHeader, Import,
         ImportFails, ReadSources, SaveCursor, Refused, providerVars
<1>3. SUFFICES ActiveWatchHasCursor'
  BY <1>2 DEF WatchInv, RegisteredInv
<1>4. CASE UNCHANGED subscription
  BY <1>2, <1>4 DEF WatchInv, ActiveWatchHasCursor
<1>5. CASE MarkRenewalDue(w)
  BY <1>5 DEF MarkRenewalDue, ActiveWatchHasCursor
<1>6. CASE RecordCheckpoint(w)
  <2>1. Belongs(task[w], Handling(w)) /\ task[w].stage = "record"
    BY <1>6 DEF RecordCheckpoint, WatchInv, HandlingInv
  <2>2. CASE Handling(w).kind = "subscription_removed"
    <3>1. subscription' = [subscription EXCEPT !.status = "renewal_due"]
      BY <1>6, <2>2 DEF RecordCheckpoint
    <3>2. subscription'.status = "renewal_due"
      BY <1>1, <3>1 DEF Subscription
    <3> QED
      BY <3>2 DEF ActiveWatchHasCursor
  <2>3. CASE Handling(w).kind = "missed" /\ task[w].cursor = NoCursor
    <3>1. subscription' = [status |-> "renewal_due", cursor |-> NoCursor]
      BY <1>6, <2>3 DEF RecordCheckpoint
    <3> QED
      BY <3>1 DEF ActiveWatchHasCursor
  <2>4. CASE /\ Handling(w).kind # "subscription_removed"
             /\ ~(Handling(w).kind = "missed" /\ task[w].cursor = NoCursor)
    <3>1. task[w].cursor # NoCursor
      BY <2>1, <2>4 DEF Belongs
    <3>2. subscription' = [subscription EXCEPT !.cursor = task[w].cursor]
      BY <1>6, <2>4 DEF RecordCheckpoint
    <3>3. subscription'.cursor # NoCursor
      BY <1>1, <3>1, <3>2 DEF Subscription
    <3> QED
      BY <3>3 DEF ActiveWatchHasCursor
  <2> QED
    BY <2>2, <2>3, <2>4
<1> QED
  BY <1>4, <1>5, <1>6
     DEF Handle, WorkerCrashes, Receive, BeginMail, BeginMissed, BeginReauthorization,
         ChooseStored, ReadActive, Report, SyncStep, Open, OpenConflict, ListPage,
         ListForgotten, ListFails, RecordHeader, Import, ImportFails, ReadSources,
         SaveCursor, Refused, storeVars

LEMMA WatchKeepsWatch ==
  ASSUME WatchInv, NEW r \in Renewers, Watch(r)
  PROVE  ActiveWatchHasCursor' /\ RegisteredInv' /\ HandlingInv'
<1> USE DEF providerVars, storeVars
<1>1. /\ renewal \in [Renewers -> Renewal] /\ subscription \in Subscription
      /\ ActiveWatchHasCursor /\ RegisteredInv /\ HandlingInv
  BY InvFacts DEF WatchInv, CursorInv, RenewalsSound
<1>2. UNCHANGED <<provider, task, job>>
  BY DEF Watch, RenewDue, EnsureSubscription, Register, StoreWatch, RegisterFails,
         RegisterRefused, RequireReauthorization
<1>3. HandlingInv'
  BY <1>1, <1>2 DEF HandlingInv, Handling
<1>4. CASE StoreWatch(r)
  <2>1. /\ renewal[r].stage = "store"
        /\ subscription' = [status |-> "active", cursor |-> renewal[r].cursor]
        /\ renewal' = [renewal EXCEPT ![r] = IdleRenewal]
    BY <1>4 DEF StoreWatch
  <2>2. ActiveWatchHasCursor'
    BY <1>1, <1>2, <2>1 DEF ActiveWatchHasCursor, RegisteredInv
  <2>3. RegisteredInv'
    BY <1>1, <1>2, <2>1 DEF RegisteredInv, IdleRenewal
  <2> QED
    BY <1>3, <2>2, <2>3
<1>5. CASE Register(r)
  <2> DEFINE c == IF provider = "gmail" THEN After(arrived) ELSE NoCursor
             x == [renewal[r] EXCEPT !.stage = "store", !.cursor = c]
  <2>1. provider = "gmail" => c # NoCursor
    BY DEF After, NoCursor
  <2>2. renewal' = [renewal EXCEPT ![r] = x] /\ UNCHANGED subscription
    BY <1>5 DEF Register
  <2> HIDE DEF c
  <2>3. renewal[r] \in Renewal
    BY <1>1
  <2>4. x.cursor = c
    BY <2>3 DEF Renewal
  <2> HIDE DEF x
  <2>5. RegisteredInv'
    BY <1>1, <1>2, <2>1, <2>2, <2>4 DEF RegisteredInv
  <2> QED
    BY <1>1, <1>2, <1>3, <2>2, <2>5 DEF ActiveWatchHasCursor
<1>6. CASE RenewDue(r) \/ EnsureSubscription(r) \/ RegisterFails(r)
             \/ RegisterRefused(r) \/ RequireReauthorization(r)
  <2>1. /\ subscription'.cursor = subscription.cursor
        /\ subscription'.status = "active" => subscription.status = "active"
    BY <1>1, <1>6 DEF RenewDue, EnsureSubscription, RegisterFails, RegisterRefused,
                      RequireReauthorization, Subscription
  <2>2. PICK x : renewal' = [renewal EXCEPT ![r] = x] /\ x.stage # "store"
    <3>1. renewal[r] \in Renewal
      BY <1>1
    <3>2. /\ [IdleRenewal EXCEPT !.stage = "register", !.due = TRUE].stage = "register"
          /\ [renewal[r] EXCEPT !.stage = "register"].stage = "register"
          /\ [renewal[r] EXCEPT !.stage = "refused"].stage = "refused"
          /\ IdleRenewal.stage = "idle"
      BY <3>1 DEF Renewal, IdleRenewal
    <3> QED
      BY <1>6, <3>2 DEF RenewDue, EnsureSubscription, RegisterFails, RegisterRefused,
                        RequireReauthorization
  <2>3. RegisteredInv'
    BY <1>1, <1>2, <2>2 DEF RegisteredInv
  <2> QED
    BY <1>1, <1>2, <1>3, <2>1, <2>3 DEF ActiveWatchHasCursor
<1> QED
  BY <1>4, <1>5, <1>6 DEF Watch

LEMMA WatchInvInit ==
  ASSUME Init  PROVE WatchInv
<1>1. HandlingInv
  BY DEF Init, HandlingInv, Belongs, Syncing, IdleTask, Tasks
<1>2. RegisteredInv /\ ActiveWatchHasCursor
  BY DEF Init, RegisteredInv, ActiveWatchHasCursor, IdleRenewal
<1> QED
  BY <1>1, <1>2, CursorInit DEF WatchInv

LEMMA WatchInvStep ==
  ASSUME WatchInv, [Next]_vars  PROVE WatchInv'
<1> USE DEF providerVars, storeVars, queueVars
<1>1. CursorInv'
  BY CursorInvStep DEF WatchInv
<1>2. CursorInv /\ HandlingInv /\ RegisteredInv /\ ActiveWatchHasCursor
  BY DEF WatchInv
<1>3. CASE UNCHANGED <<provider, subscription, renewal, task, job>>
  BY <1>1, <1>2, <1>3 DEF WatchInv, HandlingInv, Handling, RegisteredInv,
                          ActiveWatchHasCursor
<1>4. ASSUME NEW t \in Manuals, SyncStep(t)  PROVE WatchInv'
  <2>1. UNCHANGED <<provider, subscription, renewal>>
    BY <1>4 DEF SyncStep, Open, OpenConflict, ListPage, ListForgotten, ListFails,
                RecordHeader, Import, ImportFails, ReadSources, SaveCursor, Refused
  <2>2. HandlingInv'
    BY <1>2, <1>4, SyncStepBelongs DEF Tasks
  <2> QED
    BY <1>1, <1>2, <2>1, <2>2 DEF WatchInv, RegisteredInv, ActiveWatchHasCursor
<1>5. ASSUME NEW w \in Workers, Handle(w) \/ WorkerCrashes(w)  PROVE WatchInv'
  BY <1>1, <1>2, <1>5, HandleBelongs, HandleKeepsWatch DEF WatchInv
<1>6. ASSUME NEW r \in Renewers, Watch(r)  PROVE WatchInv'
  BY <1>1, <1>6, WatchKeepsWatch DEF WatchInv
<1>7. ASSUME NEW w \in Workers, VisibilityExpires(w)  PROVE WatchInv'
  BY <1>3, <1>7 DEF VisibilityExpires
<1>8. CASE Environment
  BY <1>3, <1>8 DEF Environment, Mailbox, Routes, Webhooks, Arrive, Forget, Disconnect,
                    SetSourceStatus, NotifyMail, NotifyLifecycle, Enqueue
<1>9. CASE UNCHANGED vars
  BY <1>3, <1>9 DEF vars
<1> QED
  BY <1>4, <1>5, <1>6, <1>7, <1>8, <1>9 DEF Next

(* However events, syncs and renewals overlap and fail, an active watch of *)
(* Gmail has a position to start from: a checkpoint is written only by an  *)
(* event whose sync ended with one.                                        *)
THEOREM InboxActiveWatchHasCursor == Spec => []ActiveWatchHasCursor
<1>1. WatchInv => ActiveWatchHasCursor
  BY DEF WatchInv
<1> QED
  BY <1>1, WatchInvInit, WatchInvStep, PTL DEF Spec

=============================================================================
