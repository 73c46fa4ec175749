---------------------------- MODULE DraftPageProofs ----------------------------
(***************************************************************************)
(* Proofs about DraftPage, for any players, length of a draft, numbers of  *)
(* drafts and searches, and any number of answers that fail.               *)
(*                                                                         *)
(* The board is right because only the page's own handler changes the      *)
(* drafts it trusts, and the handler ends with a board it has fetched      *)
(* after its change (BoardOK).  The copies are right because whatever      *)
(* changes the draft also schedules the effects, and a scheduled effect    *)
(* first drops the answers to what was asked before (CopyOK).              *)
(***************************************************************************)
EXTENDS DraftPage, SequenceTheorems, TLAPS

-----------------------------------------------------------------------------
(* The inductive invariant.                                                *)

Draft == [status : {"setup", "in_progress", "completed"}, picks : Seq(Players)]

\* Every draft but the newest is complete.
ServerOK(ds) ==
  /\ ds \in Seq(Draft)
  /\ \A k \in 1 .. Len(ds) : k < Len(ds) => ds[k].status = "completed"

Reads == {"league", "draft", "teams", "board", "assistant"}
Lists == {"assistant", "available"}

IsAnswer(a) ==
  \/ a.kind \in {"waiting", "refused"} \cup Faults /\ a = [kind |-> a.kind]
  \/ a.kind = "ok" /\ a = [kind |-> "ok", draft |-> a.draft]

IsPage(p) ==
  p = [league |-> p.league, draft |-> p.draft, board |-> p.board,
       assistant |-> p.assistant, available |-> p.available,
       filter |-> p.filter, loading |-> p.loading]

\* What a handler awaits belongs to what it does.
IsHandler(h) ==
  /\ h = [does |-> h.does, player |-> h.player, at |-> h.at, answer |-> h.answer,
          board |-> h.board]
  /\ h.at \in Changes \cup Reads
  /\ h.at \in Changes => h.does = h.at
  /\ h.at = "pick" => h.player \in Players
  /\ h.at \in {"league", "draft"} => h.does = "load"
  /\ h.at = "assistant" => h.does = "pick"
  /\ IsAnswer(h.answer)

IsLoad(l) ==
  /\ l = [copy |-> l.copy, filter |-> l.filter, answer |-> l.answer, clears |-> l.clears]
  /\ l.copy \in Lists
  /\ IsAnswer(l.answer)

TypesOK ==
  /\ ServerOK(drafts)
  /\ IsPage(page)
  /\ handler = Idle \/ IsHandler(handler)
  /\ \A l \in loads : IsLoad(l)
  /\ effects \subseteq Lists
  /\ orphan = None \/ /\ orphan = [at |-> orphan.at, player |-> orphan.player]
                      /\ orphan.at \in Changes
                      /\ orphan.at = "pick" => orphan.player \in Players
  /\ missed \subseteq Copies

\* A handler that is loading the page has not shown a draft yet; any other was
\* clicked on a page that had loaded.
LoadingOK ==
  handler # Idle =>
    /\ handler.at \in {"league", "draft"} => page.draft = "absent"
    /\ handler.does # "load" => ~page.loading

\* What the page has reason to distrust.
MissedOK ==
  /\ "board" \in missed => missed = Copies
  /\ orphan # None => missed = Copies
  /\ handler # Idle => (handler.answer.kind \in Faults => missed = Copies)

\* A change that was asked for and has not changed anything.
Unchanged(h) == /\ h.at \in Changes
                /\ h.answer = Waiting \/ h.answer.kind = "refused"

\* The handler knows of a draft that the server has.
HasDraft(h) ==
  \/ h.at \in {"teams", "board", "assistant", "reset"}
  \/ h.at \in {"draft"} \cup (Changes \ {"delete"}) /\ h.answer.kind = "ok"

\* A page that trusts its board shows the newest draft, unless its handler has
\* changed it and is on the way to a board that does.
BoardOK ==
  "board" \notin missed =>
    /\ handler = Idle => ~page.loading /\ ShowsNewest
    /\ handler # Idle =>
         /\ handler.answer.kind = "ok" /\ handler.at # "league"
              => handler.answer.draft = Newest(drafts)
         /\ handler.at = "draft" /\ handler.answer.kind = "refused"
              => Newest(drafts).status = "absent"
         /\ Unchanged(handler) => ShowsNewest
         /\ handler.at = "delete" /\ handler.answer.kind = "ok"
              => Newest(drafts).status \in {"absent", "completed"}
         /\ HasDraft(handler) => Newest(drafts).status # "absent"
         /\ handler.at \in {"board", "reset"} => handler.answer.kind # "refused"
         /\ handler.at = "assistant" => handler.board = Newest(drafts)

\* The handler will give the page a new draft object, or say there is none.
WillSetDraft ==
  handler # Idle /\ ~(Unchanged(handler) /\ handler.does # "reset")

Shown(c) == IF c = "assistant" THEN [picks |-> Newest(drafts).picks]
            ELSE [filter |-> page.filter, picks |-> Newest(drafts).picks]

\* What is asked for or shown is the newest draft's.
IsCurrent(c) ==
  /\ \A l \in loads : l.copy = c =>
        l.answer = Waiting \/ l.answer = [kind |-> "ok", draft |-> Newest(drafts)]
  /\ (\A l \in loads : l.copy # c) => page[c] = Shown(c)

CopyOK(c) ==
  c \notin missed =>
    \/ c \in effects
    \/ WillSetDraft
    \/ page.draft = "in_progress" => IsCurrent(c)

SearchOK ==
  "available" \notin effects =>
    \A l \in loads : l.copy = "available" => l.filter = page.filter

IInv == /\ TypesOK /\ LoadingOK /\ MissedOK
        /\ BoardOK /\ SearchOK
        /\ \A c \in Lists : CopyOK(c)

-----------------------------------------------------------------------------
(* The server.                                                             *)

LEMMA NewestIs ==
  ASSUME NEW ds, ServerOK(ds)
  PROVE  /\ Newest(ds).status = "absent" => ds = <<>> /\ Newest(ds).picks = <<>>
         /\ Newest(ds).status # "absent" =>
              /\ Len(ds) \in Nat \ {0}
              /\ Newest(ds) = ds[Len(ds)]
              /\ Newest(ds) \in Draft
<1>1. CASE ds = <<>>
  BY <1>1 DEF Newest
<1>2. CASE ds # <<>>
  <2>1. Len(ds) \in Nat \ {0} /\ ds[Len(ds)] \in Draft
    BY <1>2 DEF ServerOK
  <2>2. Newest(ds) = ds[Len(ds)]
    BY <1>2 DEF Newest, Last
  <2>3. Newest(ds).status # "absent"
    BY <2>1, <2>2 DEF Draft
  <2>4. QED
    BY <2>1, <2>2, <2>3
<1>3. QED
  BY <1>1, <1>2

LEMMA WithNewestIs ==
  ASSUME NEW ds, ServerOK(ds), Newest(ds).status # "absent", NEW d \in Draft
  PROVE  ServerOK(WithNewest(ds, d)) /\ Newest(WithNewest(ds, d)) = d
<1> DEFINE n == Len(ds)
<1>1. n \in Nat \ {0} /\ ds \in Seq(Draft)
  BY NewestIs DEF ServerOK
<1>2. PICK es : es = [ds EXCEPT ![n] = d]
  OBVIOUS
<1>3. es \in Seq(Draft) /\ Len(es) = n /\ es[n] = d /\ \A k \in 1 .. n : k # n => es[k] = ds[k]
  BY <1>1, <1>2
<1>4. ServerOK(es)
  BY <1>1, <1>3 DEF ServerOK
<1>5. Newest(es) = d
  BY <1>1, <1>3 DEF Newest, Last
<1>6. QED
  BY <1>2, <1>4, <1>5 DEF WithNewest

LEMMA AppendIs ==
  ASSUME NEW ds, ServerOK(ds), Newest(ds).status \in {"absent", "completed"}, NEW d \in Draft
  PROVE  ServerOK(Append(ds, d)) /\ Newest(Append(ds, d)) = d
<1> DEFINE n == Len(ds)
<1>1. n \in Nat /\ ds \in Seq(Draft)
  BY DEF ServerOK
<1>2. PICK es : es = Append(ds, d)
  OBVIOUS
<1>3. es \in Seq(Draft) /\ Len(es) = n + 1 /\ es[n + 1] = d /\ \A k \in 1 .. n : es[k] = ds[k]
  BY <1>1, <1>2
<1>4. \A k \in 1 .. n : ds[k].status = "completed"
  BY <1>1, NewestIs DEF ServerOK
<1>5. ServerOK(es)
  BY <1>1, <1>3, <1>4 DEF ServerOK
<1>6. Newest(es) = d
  BY <1>1, <1>3 DEF Newest, Last
<1>7. QED
  BY <1>2, <1>5, <1>6

LEMMA FrontOf ==
  ASSUME NEW S, NEW s \in Seq(S), s # <<>>
  PROVE  /\ Front(s) \in Seq(S)
         /\ Len(Front(s)) = Len(s) - 1
         /\ \A k \in 1 .. Len(s) - 1 : Front(s)[k] = s[k]
<1> DEFINE n == Len(s) - 1
<1>1. n \in Nat /\ 1 \in Int /\ n \in Int /\ \A k \in 1 .. n : s[k] \in S
  OBVIOUS
<1>2. Front(s) = SubSeq(s, 1, n)
  BY DEF Front
<1> HIDE DEF n
<1>3. /\ SubSeq(s, 1, n) \in Seq(S)
      /\ Len(SubSeq(s, 1, n)) = IF 1 <= n THEN n - 1 + 1 ELSE 0
      /\ \A k \in 1 .. n - 1 + 1 : SubSeq(s, 1, n)[k] = s[1 + k - 1]
  BY <1>1, SubSeqProperties
<1>4. Len(Front(s)) = n /\ \A k \in 1 .. n : Front(s)[k] = s[k]
  BY <1>1, <1>2, <1>3
<1>5. QED
  BY <1>2, <1>3, <1>4 DEF n

LEMMA FrontIs ==
  ASSUME NEW ds, ServerOK(ds), Newest(ds).status # "absent"
  PROVE  ServerOK(Front(ds)) /\ Newest(Front(ds)).status \in {"absent", "completed"}
<1> DEFINE n == Len(ds)
<1>1. n \in Nat \ {0} /\ ds \in Seq(Draft)
  BY NewestIs DEF ServerOK
<1>2. PICK es : es = Front(ds)
  OBVIOUS
<1>3. es \in Seq(Draft) /\ Len(es) = n - 1 /\ \A k \in 1 .. n - 1 : es[k] = ds[k]
  BY <1>1, <1>2, FrontOf
<1>4. \A k \in 1 .. n - 1 : es[k].status = "completed"
  BY <1>1, <1>3 DEF ServerOK
<1>5. ServerOK(es)
  BY <1>1, <1>3, <1>4 DEF ServerOK
<1>6. Newest(es).status \in {"absent", "completed"}
  BY <1>1, <1>3, <1>4 DEF Newest, Last
<1>7. QED
  BY <1>2, <1>5, <1>6

\* What a request does to the drafts, and what it is told.
Serves(ds, es, at, a) ==
  /\ ServerOK(es)
  /\ IsAnswer(a) /\ a.kind \in {"ok", "refused"}
  /\ at \notin Changes \/ a.kind = "refused" => es = ds
  /\ a.kind = "ok" => a.draft = Newest(es)
  /\ at = "delete" /\ a.kind = "ok" => Newest(es).status \in {"absent", "completed"}
  /\ at \in Changes \ {"delete"} /\ a.kind = "ok" => Newest(es).status # "absent"
  /\ at \in {"draft", "teams", "board", "reset"} /\ a.kind = "refused"
       => Newest(ds).status = "absent"
  /\ at = "draft" /\ a.kind = "ok" => Newest(ds).status # "absent"
  /\ at \in Lists /\ Newest(ds).status = "in_progress" => a.kind = "ok"

LEMMA AfterIs ==
  ASSUME NEW ds, ServerOK(ds), NEW at \in Changes, NEW player, at = "pick" => player \in Players,
         Accepts(ds, at, player)
  PROVE  LET es == After(ds, at, player) IN
         /\ ServerOK(es)
         /\ at = "delete" => Newest(es).status \in {"absent", "completed"}
         /\ at # "delete" => Newest(es).status # "absent"
<1> DEFINE d == Newest(ds)
<1>1. d.status # "absent" => d \in Draft
  BY NewestIs
<1>2. d.status \in {"absent", "setup", "in_progress", "completed"} /\ d.picks \in Seq(Players)
  <2>1. CASE d.status = "absent"
    <3>1. <<>> \in Seq(Players)
      OBVIOUS
    <3>2. QED
      BY <2>1, <3>1, NewestIs
  <2>2. CASE d.status # "absent"
    BY <1>1, <2>2 DEF Draft
  <2>3. QED
    BY <2>1, <2>2
<1>3. d.picks # <<>> => d.status # "absent"
  BY NewestIs
<1> HIDE DEF d
<1>4. CASE at = "create"
  <2>1. PICK e : e = [status |-> "setup", picks |-> <<>>]
    OBVIOUS
  <2>2. d.status \in {"absent", "completed"} /\ e \in Draft /\ e.status = "setup"
    BY <1>4, <2>1 DEF Accepts, HasAssistant, HasAvailable, Draft, d
  <2>3. After(ds, at, player) = Append(ds, e)
    BY <1>4, <2>1 DEF After
  <2>4. QED
    BY <1>4, <2>1, <2>2, <2>3, AppendIs DEF d
<1>5. CASE at = "save"
  BY <1>5 DEF Accepts, HasAssistant, HasAvailable, After, d
<1>6. CASE at = "start"
  <2>1. d.status = "setup"
    BY <1>6 DEF Accepts, HasAssistant, HasAvailable, d
  <2>2. PICK e : e = [d EXCEPT !.status = "in_progress"]
    OBVIOUS
  <2>3. e \in Draft /\ e.status = "in_progress"
    BY <1>1, <2>1, <2>2 DEF Draft
  <2>4. After(ds, at, player) = WithNewest(ds, e)
    BY <1>6, <2>2 DEF After, d
  <2>5. QED
    BY <1>6, <2>1, <2>3, <2>4, WithNewestIs DEF d
<1>7. CASE at = "pick"
  <2>1. d.status = "in_progress"
    BY <1>7 DEF Accepts, HasAssistant, HasAvailable, d
  <2>2. PICK picks : picks = Append(d.picks, player)
    OBVIOUS
  <2>3. picks \in Seq(Players)
    BY <1>2, <1>7, <2>2
  <2>4. PICK e : e = [picks |-> picks, status |-> IF Len(picks) = TotalPicks
                                                  THEN "completed" ELSE "in_progress"]
    OBVIOUS
  <2>5. e \in Draft /\ e.status \in {"completed", "in_progress"}
    BY <2>3, <2>4 DEF Draft
  <2>6. After(ds, at, player) = WithNewest(ds, e)
    BY <1>7, <2>2, <2>4 DEF After, d
  <2>7. QED
    BY <1>7, <2>1, <2>5, <2>6, WithNewestIs DEF d
<1>8. CASE at = "undo"
  <2>1. d.picks # <<>>
    BY <1>8 DEF Accepts, HasAssistant, HasAvailable, d
  <2>2. PICK picks : picks = Front(d.picks)
    OBVIOUS
  <2>3. picks \in Seq(Players)
    BY <1>2, <2>1, <2>2, FrontOf
  <2>4. PICK e : e = [picks |-> picks, status |-> "in_progress"]
    OBVIOUS
  <2>5. e \in Draft /\ e.status = "in_progress"
    BY <2>3, <2>4 DEF Draft
  <2>6. After(ds, at, player) = WithNewest(ds, e)
    BY <1>8, <2>2, <2>4 DEF After, d
  <2>7. QED
    BY <1>3, <1>8, <2>1, <2>5, <2>6, WithNewestIs DEF d
<1>9. CASE at = "reset"
  <2>1. PICK e : e = [status |-> "setup", picks |-> <<>>]
    OBVIOUS
  <2>2. d.status # "absent" /\ e \in Draft /\ e.status = "setup"
    BY <1>9, <2>1 DEF Accepts, HasAssistant, HasAvailable, Draft, d
  <2>3. After(ds, at, player) = WithNewest(ds, e)
    BY <1>9, <2>1 DEF After
  <2>4. QED
    BY <1>9, <2>1, <2>2, <2>3, WithNewestIs DEF d
<1>10. CASE at = "delete"
  <2>1. d.status # "absent"
    BY <1>10 DEF Accepts, HasAssistant, HasAvailable, d
  <2>2. After(ds, at, player) = Front(ds)
    BY <1>10 DEF After
  <2>3. QED
    BY <1>10, <2>1, <2>2, FrontIs DEF d
<1>11. QED
  BY <1>4, <1>5, <1>6, <1>7, <1>8, <1>9, <1>10 DEF Changes

LEMMA AnswerServes ==
  ASSUME NEW ds, ServerOK(ds), NEW at \in Changes \cup Reads \cup Lists,
         NEW player, at = "pick" => player \in Players
  PROVE  Serves(ds, IF Accepts(ds, at, player) THEN After(ds, at, player) ELSE ds,
                at, Answer(ds, at, player))
<1>1. at \notin Changes => After(ds, at, player) = ds
  BY DEF After, Changes, Reads, Lists
<1>2. CASE Accepts(ds, at, player)
  <2>1. PICK es : es = After(ds, at, player)
    OBVIOUS
  <2>2. PICK a : a = [kind |-> "ok", draft |-> Newest(es)]
    OBVIOUS
  <2>3. IsAnswer(a) /\ a.kind = "ok" /\ a.draft = Newest(es)
    BY <2>2 DEF IsAnswer
  <2>4. ServerOK(es)
    BY <1>1, <1>2, <2>1, AfterIs
  <2>5. at \in Changes => IF at = "delete" THEN Newest(es).status \in {"absent", "completed"}
                                          ELSE Newest(es).status # "absent"
    BY <1>2, <2>1, AfterIs
  <2>6. at = "delete" => at \in Changes
    BY DEF Changes
  <2>7. at = "draft" => Newest(ds).status # "absent"
    BY <1>2 DEF Accepts, HasAssistant, HasAvailable
  <2>8. Serves(ds, es, at, a)
    BY <1>1, <2>1, <2>3, <2>4, <2>5, <2>6, <2>7 DEF Serves
  <2>9. QED
    BY <1>2, <2>1, <2>2, <2>8 DEF Answer
<1>3. CASE ~Accepts(ds, at, player)
  <2>1. PICK a : a = [kind |-> "refused"]
    OBVIOUS
  <2>2. IsAnswer(a) /\ a.kind = "refused"
    BY <2>1 DEF IsAnswer
  <2>3. at \in {"draft", "teams", "board", "reset"} => Newest(ds).status = "absent"
    BY <1>3 DEF Accepts, HasAssistant, HasAvailable
  <2>4. at \in Lists => Newest(ds).status # "in_progress"
    BY <1>3 DEF Accepts, HasAssistant, HasAvailable, Lists
  <2>5. Serves(ds, ds, at, a)
    BY <2>2, <2>3, <2>4 DEF Serves
  <2>6. QED
    BY <1>3, <2>1, <2>5 DEF Answer
<1>4. QED
  BY <1>2, <1>3

-----------------------------------------------------------------------------
(* The handler.                                                            *)

LEMMA HandlerIsNotIdle ==
  ASSUME NEW h, IsHandler(h)
  PROVE  h # Idle
<1>1. "does" \in DOMAIN h
  BY DEF IsHandler
<1>2. "does" \notin DOMAIN Idle
  BY DEF Idle, None
<1>3. QED
  BY <1>1, <1>2

LEMMA WaitingIs == IsAnswer(Waiting) /\ \A a : IsAnswer(a) => (a = Waiting <=> a.kind = "waiting")
<1>1. Waiting.kind = "waiting"
  BY DEF Waiting
<1>2. IsAnswer(Waiting)
  BY <1>1 DEF IsAnswer, Waiting
<1>3. ASSUME NEW a, IsAnswer(a), a.kind = "waiting"
      PROVE  a = Waiting
  BY <1>3 DEF IsAnswer, Waiting, Faults
<1>4. QED
  BY <1>1, <1>2, <1>3

LEMMA AnswerTo ==
  ASSUME NEW h, IsHandler(h), NEW a, IsAnswer(a), NEW g, g = [h EXCEPT !.answer = a]
  PROVE  /\ IsHandler(g) /\ g.answer = a
         /\ g.does = h.does /\ g.player = h.player /\ g.at = h.at /\ g.board = h.board
BY DEF IsHandler

LEMMA HandlerServedKeepsIInv ==
  ASSUME IInv, HandlerServed
  PROVE  IInv'
<1>1. IsHandler(handler) /\ handler # Idle /\ handler.answer = Waiting /\ ServerOK(drafts)
  BY DEF IInv, TypesOK, HandlerServed
<1>2. PICK a : a = Answer(drafts, handler.at, handler.player)
  OBVIOUS
<1>3. Serves(drafts, drafts', handler.at, a)
  <2>1. handler.at \in Changes \cup Reads \cup Lists /\ (handler.at = "pick" => handler.player \in Players)
    BY <1>1 DEF IsHandler
  <2>2. QED
    BY <1>1, <1>2, <2>1, AnswerServes DEF HandlerServed
<1>4. /\ IsHandler(handler') /\ handler'.answer = a
      /\ handler'.does = handler.does /\ handler'.at = handler.at /\ handler'.board = handler.board
  BY <1>1, <1>2, <1>3, AnswerTo DEF HandlerServed, Serves
<1>5. handler' # Idle /\ a.kind # "waiting" /\ a # Waiting /\ a.kind \notin Faults
  BY <1>3, <1>4, HandlerIsNotIdle, WaitingIs DEF Serves, Faults
<1>6. UNCHANGED <<page, loads, effects, orphan, missed, mishaps>>
  BY DEF HandlerServed
<1>7. TypesOK' /\ LoadingOK' /\ MissedOK' /\ SearchOK'
  BY <1>1, <1>3, <1>4, <1>5, <1>6 DEF IInv, TypesOK, LoadingOK, MissedOK, SearchOK, Serves
<1>8. Unchanged(handler') => drafts' = drafts /\ Unchanged(handler)
  BY <1>1, <1>3, <1>4, <1>5 DEF Unchanged, Serves
<1>9. BoardOK'
  <2>1. SUFFICES ASSUME "board" \notin missed
                 PROVE  BoardOK'
    BY <1>6 DEF BoardOK
  <2>2. HasDraft(handler') => Newest(drafts').status # "absent"
    BY <1>1, <1>3, <1>4, <2>1 DEF IInv, BoardOK, HasDraft, Serves, Changes
  <2>3. Unchanged(handler') => ShowsNewest'
    BY <1>1, <1>6, <1>8, <2>1 DEF IInv, BoardOK, ShowsNewest
  <2>4. handler'.at \in {"board", "reset"} => handler'.answer.kind # "refused"
    BY <1>1, <1>3, <1>4, <2>1 DEF IInv, BoardOK, HasDraft, Serves
  <2>5. handler'.at = "assistant" => handler'.board = Newest(drafts')
    BY <1>1, <1>3, <1>4, <2>1 DEF IInv, BoardOK, Serves, Changes
  <2>6. QED
    BY <1>3, <1>4, <1>5, <2>2, <2>3, <2>4, <2>5 DEF BoardOK, Serves, Changes
<1>10. ASSUME NEW c \in Lists
       PROVE  CopyOK(c)'
  BY <1>1, <1>4, <1>5, <1>6, <1>8 DEF IInv, CopyOK, WillSetDraft, IsCurrent, Shown
<1>11. QED
  BY <1>7, <1>9, <1>10 DEF IInv

LEMMA HandlerFailsKeepsIInv ==
  ASSUME IInv, NEW fault \in Faults, HandlerFails(fault)
  PROVE  IInv'
<1>1. IsHandler(handler)
  BY DEF IInv, TypesOK, HandlerFails
<1>2. PICK a : a = [kind |-> fault]
  OBVIOUS
<1>3. IsAnswer(a) /\ a.kind = fault
  BY <1>2 DEF IsAnswer
<1>4. /\ IsHandler(handler') /\ handler'.answer = a
      /\ handler'.does = handler.does /\ handler'.at = handler.at
  BY <1>1, <1>2, <1>3, AnswerTo DEF HandlerFails
<1>5. handler # Idle /\ handler' # Idle
  BY <1>1, <1>4, HandlerIsNotIdle
<1>6. UNCHANGED <<drafts, page, loads, effects>> /\ missed' = Copies
  BY DEF HandlerFails
<1>7. orphan' = None \/ /\ orphan' = [at |-> orphan'.at, player |-> orphan'.player]
                        /\ orphan'.at \in Changes
                        /\ orphan'.at = "pick" => orphan'.player \in Players
  <2>1. CASE orphan' = orphan
    BY <2>1 DEF IInv, TypesOK
  <2>2. CASE handler.at \in Changes /\ orphan' = [at |-> handler.at, player |-> handler.player]
    BY <1>1, <2>2 DEF IsHandler
  <2>3. QED
    BY <2>1, <2>2 DEF HandlerFails
<1>8. TypesOK' /\ LoadingOK' /\ SearchOK'
  BY <1>4, <1>5, <1>6, <1>7 DEF IInv, TypesOK, LoadingOK, SearchOK
<1>9. MissedOK' /\ BoardOK' /\ \A c \in Lists : CopyOK(c)'
  BY <1>6 DEF MissedOK, BoardOK, CopyOK, Copies, Lists
<1>10. QED
  BY <1>8, <1>9 DEF IInv

Goes(h, at, g) == g = [h EXCEPT !.at = at, !.answer = Waiting]

LEMMA ContinueTo ==
  ASSUME NEW h, IsHandler(h), NEW at, at \in {"draft", "teams", "board", "assistant"},
         at = "draft" => h.does = "load", at = "assistant" => h.does = "pick",
         NEW g, Goes(h, at, g)
  PROVE  /\ IsHandler(g) /\ g.answer = Waiting /\ g.at \in Reads
         /\ g.does = h.does /\ g.at = at /\ g.board = h.board
<1>1. /\ g.answer = Waiting /\ g.does = h.does /\ g.at = at /\ g.board = h.board
      /\ g = [does |-> g.does, player |-> g.player, at |-> g.at, answer |-> g.answer,
              board |-> g.board]
  BY DEF IsHandler, Goes
<1>2. at \notin Changes /\ at \in Reads
  BY DEF Reads, Changes
<1>3. at \notin {"pick", "league"} /\ g.answer = Waiting /\ IsAnswer(g.answer)
  BY <1>1, WaitingIs
<1>4. QED
  BY <1>1, <1>2, <1>3 DEF IsHandler

\* A handler that awaits its next answer, and will set the draft.
LEMMA OnTheWay ==
  ASSUME IsHandler(handler'), handler'.answer = Waiting, handler'.at \in Reads,
         "board" \notin missed' =>
           /\ handler'.at \in {"teams", "board", "assistant"} => Newest(drafts').status # "absent"
           /\ handler'.at = "assistant" => handler'.board = Newest(drafts')
  PROVE  handler' # Idle /\ BoardOK' /\ \A c \in Lists : CopyOK(c)'
<1>1. handler' # Idle /\ handler'.at \notin Changes
  BY HandlerIsNotIdle DEF Reads, Changes
<1>2. handler'.answer.kind = "waiting"
  BY DEF Waiting
<1>3. HasDraft(handler') => handler'.at \in {"teams", "board", "assistant"}
  BY <1>1, <1>2 DEF HasDraft, Changes
<1>4. ~Unchanged(handler') /\ handler'.at \notin {"delete", "reset"}
  BY <1>1 DEF Unchanged, Changes
<1>5. BoardOK'
  BY <1>1, <1>2, <1>3, <1>4 DEF BoardOK
<1>6. \A c \in Lists : CopyOK(c)'
  BY <1>1, <1>4 DEF CopyOK, WillSetDraft
<1>7. QED
  BY <1>1, <1>5, <1>6

\* A handler that ends, with the effects to run or nothing that they are for.
LEMMA AtTheEnd ==
  ASSUME handler' = Idle, "board" \notin missed' => ~page'.loading /\ ShowsNewest',
         Lists \subseteq effects' \/ page'.draft # "in_progress" \/ missed' = Copies
  PROVE  LoadingOK' /\ BoardOK' /\ \A c \in Lists : CopyOK(c)'
BY DEF LoadingOK, BoardOK, CopyOK, Copies, Lists

LEMMA CaughtUpIs ==
  ASSUME MissedOK, UNCHANGED <<drafts, orphan>>, NEW d, CaughtUp(d), handler' = Idle
  PROVE  /\ MissedOK'
         /\ \/ missed' = missed
            \/ missed' = {} /\ Newest(drafts) = d
<1>1. CASE Newest(drafts) = d /\ orphan = None
  <2>1. missed' = {} /\ orphan' = None
    BY <1>1 DEF CaughtUp
  <2>2. QED
    BY <1>1, <2>1 DEF MissedOK
<1>2. CASE ~(Newest(drafts) = d /\ orphan = None)
  <2>1. missed' = missed /\ orphan' = orphan
    BY <1>2 DEF CaughtUp
  <2>2. QED
    BY <2>1 DEF MissedOK
<1>3. QED
  BY <1>1, <1>2

LEMMA LandLeagueKeepsIInv ==
  ASSUME IInv, LandLeague
  PROVE  IInv'
<1>1. IsHandler(handler) /\ handler # Idle /\ handler.at = "league" /\ handler.does = "load"
  BY DEF IInv, TypesOK, LandLeague, Landed, IsHandler
<1>2. /\ IsHandler(handler') /\ handler'.answer = Waiting
      /\ handler'.does = "load" /\ handler'.at = "draft" /\ handler'.at \in Reads
  <2>1. Goes(handler, "draft", handler')
    BY DEF LandLeague, Continue, Goes
  <2>2. QED
    BY <1>1, <2>1, ContinueTo
<1>3. UNCHANGED <<drafts, loads, effects, orphan, missed, mishaps>>
  BY DEF LandLeague
<1>4. IsPage(page') /\ page'.draft = page.draft /\ page'.filter = page.filter
  BY DEF LandLeague, IInv, TypesOK, IsPage
<1>5. handler' # Idle /\ BoardOK' /\ \A c \in Lists : CopyOK(c)'
  BY <1>2, OnTheWay
<1>6. TypesOK' /\ LoadingOK' /\ SearchOK'
  BY <1>1, <1>2, <1>3, <1>4, <1>5 DEF IInv, TypesOK, LoadingOK, SearchOK
<1>7. MissedOK'
  BY <1>2, <1>3 DEF IInv, MissedOK, Waiting, Faults
<1>8. QED
  BY <1>5, <1>6, <1>7 DEF IInv

LEMMA LandDraftKeepsIInv ==
  ASSUME IInv, LandDraft
  PROVE  IInv'
<1>1. /\ IsHandler(handler) /\ handler # Idle /\ handler.at = "draft" /\ handler.does = "load"
      /\ page.draft = "absent" /\ IsPage(page) /\ ServerOK(drafts)
  BY DEF IInv, TypesOK, LoadingOK, LandDraft, Landed, IsHandler
<1>2. UNCHANGED <<drafts, loads, orphan, mishaps>>
  BY DEF LandDraft
<1>3. CASE Ok
  <2>1. handler.answer.kind = "ok"
    BY <1>3 DEF Ok
  <2>2. PICK at \in {"teams", "board"} :
          /\ Continue(at) /\ SetDraft /\ UNCHANGED missed
          /\ page' = [page EXCEPT !.draft = handler.answer.draft.status]
    BY <2>1 DEF LandDraft, Ok, Lost
  <2>3. /\ IsHandler(handler') /\ handler'.answer = Waiting
        /\ handler'.does = "load" /\ handler'.at \in {"teams", "board"} /\ handler'.at \in Reads
    <3>1. Goes(handler, at, handler')
      BY <2>2 DEF Continue, Goes
    <3>2. QED
      BY <1>1, <2>2, <3>1, ContinueTo
  <2>4. IsPage(page') /\ page'.filter = page.filter
    BY <1>1, <2>2 DEF IsPage
  <2>5. "board" \notin missed => Newest(drafts).status # "absent"
    BY <1>1, <2>1 DEF IInv, BoardOK, HasDraft
  <2>6. handler' # Idle /\ BoardOK' /\ \A c \in Lists : CopyOK(c)'
    BY <1>2, <2>2, <2>3, <2>5, OnTheWay
  <2>7. TypesOK' /\ LoadingOK' /\ SearchOK'
    BY <1>2, <2>2, <2>3, <2>4, <2>6 DEF IInv, TypesOK, LoadingOK, SearchOK, SetDraft, Lists
  <2>8. MissedOK'
    BY <1>2, <2>2, <2>3 DEF IInv, MissedOK, Waiting, Faults
  <2>9. QED
    BY <2>6, <2>7, <2>8 DEF IInv
<1>4. CASE ~Ok
  <2>1. handler' = Idle /\ UNCHANGED effects
    BY <1>4 DEF LandDraft, Stop
  <2>2. /\ IsPage(page') /\ page'.draft = "absent" /\ page'.filter = page.filter
        /\ ~Lost => ~page'.loading
    BY <1>1, <1>4 DEF LandDraft, IsPage, Lost
  <2>3. /\ MissedOK'
        /\ \/ missed' = missed
           \/ /\ missed' = {} /\ Newest(drafts) = Newest(<<>>)
              /\ handler.answer.kind = "refused"
    <3>1. CASE CaughtUp(Newest(<<>>)) /\ handler.answer.kind = "refused"
      BY <1>2, <2>1, <3>1, CaughtUpIs DEF IInv
    <3>2. CASE missed' = missed
      BY <1>2, <2>1, <3>2 DEF IInv, MissedOK
    <3>3. QED
      BY <1>4, <3>1, <3>2 DEF LandDraft
  <2>4. "board" \notin missed' => handler.answer.kind = "refused" /\ Newest(drafts).status = "absent"
    <3>1. handler.answer.kind \notin Faults => handler.answer.kind = "refused"
      BY <1>4 DEF LandDraft, Lost, Faults
    <3>2. handler.answer.kind \in Faults => missed = Copies
      BY <1>1 DEF IInv, MissedOK
    <3>3. Newest(<<>>).status = "absent"
      BY DEF Newest
    <3>4. QED
      BY <1>1, <2>3, <3>1, <3>2, <3>3 DEF IInv, BoardOK, Copies, Faults
  <2>5. "board" \notin missed' => ~page'.loading /\ ShowsNewest'
    BY <1>2, <2>2, <2>4 DEF ShowsNewest, Lost
  <2>6. LoadingOK' /\ BoardOK' /\ \A c \in Lists : CopyOK(c)'
    BY <2>1, <2>2, <2>5, AtTheEnd
  <2>7. TypesOK' /\ SearchOK'
    BY <1>2, <2>1, <2>2, <2>3 DEF IInv, TypesOK, SearchOK
  <2>8. QED
    BY <2>3, <2>6, <2>7 DEF IInv
<1>5. QED
  BY <1>3, <1>4

LEMMA LandTeamsKeepsIInv ==
  ASSUME IInv, LandTeams
  PROVE  IInv'
<1>1. /\ IsHandler(handler) /\ handler # Idle /\ handler.at = "teams"
  BY DEF IInv, TypesOK, LandTeams, Landed
<1>2. UNCHANGED <<drafts, page, loads, effects, orphan, missed, mishaps>>
  BY DEF LandTeams
<1>3. CASE Lost
  <2>1. handler' = Idle /\ missed' = Copies
    BY <1>1, <1>2, <1>3 DEF LandTeams, Stop, IInv, MissedOK, Lost, Faults
  <2>2. LoadingOK' /\ BoardOK' /\ \A c \in Lists : CopyOK(c)'
    BY <2>1, AtTheEnd DEF Copies
  <2>3. TypesOK' /\ MissedOK' /\ SearchOK'
    BY <1>2, <2>1 DEF IInv, TypesOK, MissedOK, SearchOK
  <2>4. QED
    BY <2>2, <2>3 DEF IInv
<1>4. CASE ~Lost
  <2>1. /\ IsHandler(handler') /\ handler'.answer = Waiting
        /\ handler'.does = handler.does /\ handler'.at = "board" /\ handler'.at \in Reads
    <3>1. Goes(handler, "board", handler')
      BY <1>4 DEF LandTeams, Continue, Goes
    <3>2. QED
      BY <1>1, <3>1, ContinueTo
  <2>2. "board" \notin missed => Newest(drafts).status # "absent"
    BY <1>1 DEF IInv, BoardOK, HasDraft
  <2>3. handler' # Idle /\ BoardOK' /\ \A c \in Lists : CopyOK(c)'
    BY <1>2, <2>1, <2>2, OnTheWay
  <2>4. TypesOK' /\ LoadingOK' /\ SearchOK'
    BY <1>1, <1>2, <2>1, <2>3 DEF IInv, TypesOK, LoadingOK, SearchOK
  <2>5. MissedOK'
    BY <1>2, <2>1 DEF IInv, MissedOK, Waiting, Faults
  <2>6. QED
    BY <2>3, <2>4, <2>5 DEF IInv
<1>5. QED
  BY <1>3, <1>4

\* An answer that has landed and may be trusted was served.
LEMMA ServedIfTrusted ==
  ASSUME IInv, handler # Idle, handler.answer # Waiting, "board" \notin missed
  PROVE  handler.answer.kind \in {"ok", "refused"}
<1>1. IsAnswer(handler.answer)
  BY DEF IInv, TypesOK, IsHandler
<1>2. handler.answer.kind # "waiting"
  BY <1>1, WaitingIs
<1>3. handler.answer.kind \notin Faults
  BY DEF IInv, MissedOK, Copies
<1>4. QED
  BY <1>1, <1>2, <1>3 DEF IsAnswer, Faults

\* A board lands, and the handler ends: the board is the newest draft's or is
\* not trusted.
LEMMA BoardIsShown ==
  ASSUME IInv, UNCHANGED <<drafts, orphan>>, handler' = Idle, NEW d, CaughtUp(d), SetDraft,
         page'.board = d, page'.draft = d.status, ~page'.loading,
         "board" \notin missed => d = Newest(drafts)
  PROVE  /\ LoadingOK' /\ MissedOK' /\ BoardOK' /\ \A c \in Lists : CopyOK(c)'
         /\ missed' \subseteq Copies /\ effects' = Lists
<1>1. /\ MissedOK'
      /\ \/ missed' = missed
         \/ missed' = {} /\ Newest(drafts) = d
  BY CaughtUpIs DEF IInv
<1>2. "board" \notin missed' => Newest(drafts) = d
  BY <1>1
<1>3. "board" \notin missed' => ~page'.loading /\ ShowsNewest'
  BY <1>2 DEF ShowsNewest
<1>4. effects' = Lists
  BY DEF SetDraft, Lists
<1>5. LoadingOK' /\ BoardOK' /\ \A c \in Lists : CopyOK(c)'
  BY <1>3, <1>4, AtTheEnd
<1>6. QED
  BY <1>1, <1>4, <1>5 DEF IInv, TypesOK

LEMMA LandBoardKeepsIInv ==
  ASSUME IInv, LandBoard
  PROVE  IInv'
<1>1. /\ IsHandler(handler) /\ handler # Idle /\ handler.at = "board" /\ handler.answer # Waiting
      /\ IsPage(page)
  BY DEF IInv, TypesOK, LandBoard, Landed
<1>2. UNCHANGED <<drafts, loads, orphan, mishaps>>
  BY DEF LandBoard
<1>3. "board" \notin missed => /\ Ok /\ handler.answer.draft = Newest(drafts)
                               /\ Newest(drafts).status # "absent"
  BY <1>1, ServedIfTrusted DEF IInv, BoardOK, HasDraft, Ok
<1>4. CASE ~(handler.does = "pick" /\ ~Lost) /\ ~(handler.does # "pick" /\ Ok)
  <2>1. handler' = Idle /\ missed' = Copies /\ UNCHANGED <<effects, missed>>
    BY <1>3, <1>4 DEF LandBoard, Stop, IInv, MissedOK, Lost, Ok
  <2>2. LoadingOK' /\ BoardOK' /\ \A c \in Lists : CopyOK(c)'
    BY <2>1, AtTheEnd DEF Copies
  <2>3. IsPage(page') /\ page'.filter = page.filter
    BY <1>1, <1>4 DEF LandBoard, IsPage
  <2>4. TypesOK' /\ MissedOK' /\ SearchOK'
    BY <1>2, <2>1, <2>3 DEF IInv, TypesOK, MissedOK, SearchOK
  <2>5. QED
    BY <2>2, <2>4 DEF IInv
<1>5. CASE handler.does = "pick" /\ ~Lost
  <2>1. handler' = [handler EXCEPT !.at = "assistant", !.answer = Waiting,
                      !.board = IF Ok THEN handler.answer.draft ELSE None]
    BY <1>5 DEF LandBoard
  <2>2. UNCHANGED <<page, effects, missed>>
    BY <1>5 DEF LandBoard
  <2>3. /\ handler'.answer = Waiting /\ handler'.at = "assistant" /\ handler'.does = "pick"
        /\ handler'.board = IF Ok THEN handler.answer.draft ELSE None
        /\ handler' = [does |-> handler'.does, player |-> handler'.player, at |-> handler'.at,
                       answer |-> handler'.answer, board |-> handler'.board]
    BY <1>1, <1>5, <2>1 DEF IsHandler
  <2>4. IsHandler(handler') /\ handler'.at \in Reads
    BY <2>3, WaitingIs DEF IsHandler, Reads, Changes
  <2>5. handler' # Idle /\ BoardOK' /\ \A c \in Lists : CopyOK(c)'
    BY <1>2, <1>3, <2>2, <2>3, <2>4, OnTheWay
  <2>6. TypesOK' /\ LoadingOK' /\ SearchOK'
    BY <1>1, <1>2, <1>5, <2>2, <2>3, <2>4, <2>5 DEF IInv, TypesOK, LoadingOK, SearchOK
  <2>7. MissedOK'
    BY <1>2, <2>2, <2>3 DEF IInv, MissedOK, Waiting, Faults
  <2>8. QED
    BY <2>5, <2>6, <2>7 DEF IInv
<1>6. CASE handler.does # "pick" /\ Ok
  <2>1. PICK d : d = handler.answer.draft
    OBVIOUS
  <2>2. handler' = Idle /\ SetDraft /\ CaughtUp(d)
    BY <1>6, <2>1 DEF LandBoard, Stop
  <2>3. /\ IsPage(page') /\ page'.filter = page.filter
        /\ page'.board = d /\ page'.draft = d.status /\ page'.loading = FALSE
    BY <1>1, <1>6, <2>1 DEF LandBoard, IsPage
  <2>4. /\ LoadingOK' /\ MissedOK' /\ BoardOK' /\ \A c \in Lists : CopyOK(c)'
        /\ missed' \subseteq Copies /\ effects' = Lists
    BY <1>2, <1>3, <2>1, <2>2, <2>3, BoardIsShown
  <2>5. TypesOK' /\ SearchOK'
    BY <1>2, <2>2, <2>3, <2>4 DEF IInv, TypesOK, SearchOK, Lists
  <2>6. QED
    BY <2>4, <2>5 DEF IInv
<1>7. QED
  BY <1>4, <1>5, <1>6

LEMMA LandAssistantKeepsIInv ==
  ASSUME IInv, LandAssistant
  PROVE  IInv'
<1>1. /\ IsHandler(handler) /\ handler # Idle /\ handler.at = "assistant" /\ handler.does = "pick"
      /\ IsPage(page) /\ ~page.loading
  BY DEF IInv, TypesOK, LoadingOK, LandAssistant, Landed, IsHandler
<1>2. UNCHANGED <<drafts, loads, orphan, mishaps>> /\ handler' = Idle
  BY DEF LandAssistant, Stop
<1>3. "board" \notin missed => /\ handler.board = Newest(drafts)
                               /\ Newest(drafts).status # "absent"
  BY <1>1 DEF IInv, BoardOK, HasDraft
<1>4. PICK shown : shown = IF Ok THEN [page EXCEPT !.assistant = [picks |-> handler.answer.draft.picks]]
                                 ELSE page
  OBVIOUS
<1>5. IsPage(shown) /\ shown.filter = page.filter /\ shown.loading = page.loading
  BY <1>1, <1>4 DEF IsPage
<1>6. CASE handler.board # None
  <2>1. PICK d : d = handler.board
    OBVIOUS
  <2>2. SetDraft /\ CaughtUp(d) /\ page' = [shown EXCEPT !.board = d, !.draft = d.status]
    BY <1>4, <1>6, <2>1 DEF LandAssistant
  <2>3. /\ IsPage(page') /\ page'.filter = page.filter
        /\ page'.board = d /\ page'.draft = d.status /\ page'.loading = page.loading
    BY <1>5, <2>2 DEF IsPage
  <2>4. /\ LoadingOK' /\ MissedOK' /\ BoardOK' /\ \A c \in Lists : CopyOK(c)'
        /\ missed' \subseteq Copies /\ effects' = Lists
    BY <1>1, <1>2, <1>3, <2>1, <2>2, <2>3, BoardIsShown
  <2>5. TypesOK' /\ SearchOK'
    BY <1>2, <2>2, <2>3, <2>4 DEF IInv, TypesOK, SearchOK
  <2>6. QED
    BY <2>4, <2>5 DEF IInv
<1>7. CASE handler.board = None
  <2>1. page' = shown /\ UNCHANGED <<effects, missed>>
    BY <1>4, <1>7 DEF LandAssistant
  <2>2. missed' = Copies
    <3>1. Newest(drafts).status # "absent" => Newest(drafts) # None
      <4>1. Newest(drafts).status # "absent" => "status" \in DOMAIN Newest(drafts)
        BY NewestIs DEF IInv, TypesOK, Draft
      <4>2. "status" \notin DOMAIN None
        BY DEF None
      <4>3. QED
        BY <4>1, <4>2
    <3>2. QED
      BY <1>3, <1>7, <2>1, <3>1 DEF IInv, MissedOK
  <2>3. LoadingOK' /\ BoardOK' /\ \A c \in Lists : CopyOK(c)'
    BY <1>2, <2>2, AtTheEnd DEF Copies
  <2>4. TypesOK' /\ MissedOK' /\ SearchOK'
    BY <1>2, <1>5, <2>1 DEF IInv, TypesOK, MissedOK, SearchOK
  <2>5. QED
    BY <2>3, <2>4 DEF IInv
<1>8. QED
  BY <1>6, <1>7

LEMMA LandChangeKeepsIInv ==
  ASSUME IInv, LandChange
  PROVE  IInv'
<1>1. /\ IsHandler(handler) /\ handler # Idle /\ handler.at \in Changes
      /\ handler.does = handler.at /\ handler.answer # Waiting
      /\ IsPage(page) /\ ~page.loading
  <2>1. IsHandler(handler) /\ handler.at \in Changes /\ handler # Idle
    BY DEF IInv, TypesOK, LandChange
  <2>2. handler.does = handler.at /\ handler.does # "load"
    BY <2>1 DEF IsHandler, Changes
  <2>3. QED
    BY <2>1, <2>2 DEF IInv, TypesOK, LoadingOK, LandChange
<1>2. UNCHANGED <<drafts, loads, orphan, missed, mishaps>>
  BY DEF LandChange
<1>3. CASE ~Ok
  <2>1. handler' = Idle /\ UNCHANGED <<page, effects>>
    BY <1>3 DEF LandChange, Stop
  <2>2. "board" \notin missed => handler.answer.kind = "refused" /\ handler.does # "reset"
    BY <1>1, <1>3, ServedIfTrusted DEF IInv, BoardOK, Ok
  <2>3. "board" \notin missed => Unchanged(handler) /\ ShowsNewest /\ ~WillSetDraft
    BY <1>1, <2>2 DEF IInv, BoardOK, Unchanged, WillSetDraft
  <2>4. LoadingOK' /\ BoardOK'
    BY <1>1, <1>2, <2>1, <2>3 DEF LoadingOK, BoardOK, ShowsNewest
  <2>5. ASSUME NEW c \in Lists
        PROVE  CopyOK(c)'
    <3>1. c \notin missed => "board" \notin missed
      BY DEF IInv, MissedOK, Copies, Lists
    <3>2. QED
      BY <1>2, <2>1, <2>3, <3>1 DEF IInv, CopyOK, IsCurrent, Shown
  <2>6. TypesOK' /\ MissedOK' /\ SearchOK'
    BY <1>2, <2>1 DEF IInv, TypesOK, MissedOK, SearchOK
  <2>7. QED
    BY <2>4, <2>5, <2>6 DEF IInv
<1>4. CASE Ok /\ handler.does = "delete"
  <2>1. /\ handler' = Idle /\ SetDraft
        /\ page' = [page EXCEPT !.draft = "absent", !.board = None]
    BY <1>4 DEF LandChange, AfterChange, Stop
  <2>2. /\ IsPage(page') /\ page'.filter = page.filter
        /\ page'.draft = "absent" /\ page'.loading = page.loading
    BY <1>1, <2>1 DEF IsPage
  <2>3. "board" \notin missed => Newest(drafts).status \in {"absent", "completed"}
    BY <1>1, <1>4 DEF IInv, BoardOK, Ok
  <2>4. "board" \notin missed' => ~page'.loading /\ ShowsNewest'
    BY <1>1, <1>2, <2>2, <2>3 DEF ShowsNewest
  <2>5. effects' = Lists
    BY <2>1 DEF SetDraft, Lists
  <2>6. LoadingOK' /\ BoardOK' /\ \A c \in Lists : CopyOK(c)'
    BY <2>1, <2>4, <2>5, AtTheEnd
  <2>7. TypesOK' /\ MissedOK' /\ SearchOK'
    BY <1>2, <2>1, <2>2, <2>5 DEF IInv, TypesOK, MissedOK, SearchOK, Lists
  <2>8. QED
    BY <2>6, <2>7 DEF IInv
<1>5. CASE Ok /\ handler.does # "delete"
  <2>1. PICK at \in {"teams", "board"} : Continue(at)
    BY <1>5 DEF LandChange, AfterChange
  <2>2. /\ IsHandler(handler') /\ handler'.answer = Waiting /\ handler'.does = handler.does
        /\ handler'.at \in {"teams", "board"} /\ handler'.at \in Reads
    <3>1. Goes(handler, at, handler')
      BY <2>1 DEF Continue, Goes
    <3>2. QED
      BY <1>1, <2>1, <3>1, ContinueTo
  <2>3. /\ IsPage(page') /\ page'.filter = page.filter /\ page'.loading = page.loading
        /\ effects' \in {effects, Lists}
    <3>1. CASE handler.does \in {"create", "save", "start", "reset"}
      BY <1>1, <1>5, <3>1 DEF LandChange, IsPage, SetDraft, Lists
    <3>2. CASE handler.does \notin {"create", "save", "start", "reset"}
      BY <1>1, <1>5, <3>2 DEF LandChange
    <3>3. QED
      BY <3>1, <3>2
  <2>4. "board" \notin missed => Newest(drafts).status # "absent"
    BY <1>1, <1>5 DEF IInv, BoardOK, HasDraft, Ok
  <2>5. handler' # Idle /\ BoardOK' /\ \A c \in Lists : CopyOK(c)'
    BY <1>2, <2>2, <2>4, OnTheWay
  <2>6. TypesOK' /\ LoadingOK' /\ SearchOK'
    BY <1>1, <1>2, <2>2, <2>3, <2>5 DEF IInv, TypesOK, LoadingOK, SearchOK, Lists
  <2>7. MissedOK'
    BY <1>2, <2>2 DEF IInv, MissedOK, Waiting, Faults
  <2>8. QED
    BY <2>5, <2>6, <2>7 DEF IInv
<1>6. QED
  BY <1>3, <1>4, <1>5

-----------------------------------------------------------------------------
(* The user.                                                               *)

LEMMA ClickKeepsIInv ==
  ASSUME IInv, NEW does \in Changes, NEW player, does = "pick" => player \in Players,
         Click(does, player)
  PROVE  IInv'
<1>1. /\ handler = Idle /\ ~page.loading /\ effects = {} /\ Offered(does, player)
      /\ handler' = Run(does, player, does)
      /\ UNCHANGED <<drafts, loads, effects, orphan, missed, mishaps>>
  BY DEF Click, Enabled
<1>2. /\ handler'.answer = Waiting /\ handler'.at = does /\ handler'.does = does
      /\ IsHandler(handler')
  <2>1. /\ handler'.answer = Waiting /\ handler'.at = does /\ handler'.does = does
        /\ handler'.player = player
        /\ handler' = [does |-> handler'.does, player |-> handler'.player, at |-> handler'.at,
                       answer |-> handler'.answer, board |-> handler'.board]
    BY <1>1 DEF Run
  <2>2. does \notin {"league", "draft", "assistant"}
    BY DEF Changes
  <2>3. QED
    BY <2>1, <2>2, WaitingIs DEF IsHandler
<1>3. handler' # Idle /\ handler'.answer.kind = "waiting"
  BY <1>2, HandlerIsNotIdle DEF Waiting
<1>4. /\ IsPage(page') /\ page'.filter = page.filter /\ page'.draft = page.draft
      /\ page'.board = page.board /\ page'.loading = page.loading
      /\ does # "reset" => page' = page
  BY DEF Click, IInv, TypesOK, IsPage
<1>5. TypesOK' /\ LoadingOK' /\ MissedOK' /\ SearchOK'
  <2>1. does \notin {"league", "draft"} /\ "waiting" \notin Faults
    BY DEF Changes, Faults
  <2>2. QED
    BY <1>1, <1>2, <1>3, <1>4, <2>1 DEF IInv, TypesOK, LoadingOK, MissedOK, SearchOK
<1>6. BoardOK'
  <2>1. SUFFICES ASSUME "board" \notin missed
                 PROVE  BoardOK'
    BY <1>1 DEF BoardOK
  <2>2. ShowsNewest /\ ShowsNewest'
    BY <1>1, <1>4, <2>1 DEF IInv, BoardOK, ShowsNewest
  <2>3. does = "reset" => Newest(drafts).status # "absent"
    BY <1>1, <2>2 DEF Offered, ShowsNewest
  <2>4. does \notin {"league", "draft", "teams", "board", "assistant"}
    BY DEF Changes
  <2>5. QED
    BY <1>1, <1>2, <1>3, <2>2, <2>3, <2>4 DEF BoardOK, HasDraft
<1>7. ASSUME NEW c \in Lists
      PROVE  CopyOK(c)'
  <2>1. CASE does = "reset"
    BY <1>2, <1>3, <2>1 DEF CopyOK, WillSetDraft
  <2>2. CASE does # "reset"
    BY <1>1, <1>4, <2>2 DEF IInv, CopyOK, WillSetDraft, IsCurrent, Shown
  <2>3. QED
    BY <2>1, <2>2
<1>8. QED
  BY <1>5, <1>6, <1>7 DEF IInv

LEMMA SearchKeepsIInv ==
  ASSUME IInv, Search
  PROVE  IInv'
<1>1. /\ effects' = effects \cup {"available"}
      /\ UNCHANGED <<drafts, handler, loads, orphan, missed, mishaps>>
  BY DEF Search
<1>2. /\ IsPage(page') /\ page'.draft = page.draft /\ page'.board = page.board
      /\ page'.loading = page.loading /\ page'.assistant = page.assistant
  BY DEF Search, IInv, TypesOK, IsPage
<1>3. TypesOK' /\ LoadingOK' /\ MissedOK' /\ SearchOK'
  BY <1>1, <1>2 DEF IInv, TypesOK, LoadingOK, MissedOK, SearchOK, Lists
<1>4. BoardOK'
  BY <1>1, <1>2 DEF IInv, BoardOK, ShowsNewest
<1>5. CopyOK("available")'
  BY <1>1 DEF CopyOK
<1>6. CopyOK("assistant")'
  <2>1. page'["assistant"] = page["assistant"]
    BY <1>2
  <2>2. CopyOK("assistant")
    BY DEF IInv, Lists
  <2>3. QED
    BY <1>1, <1>2, <2>1, <2>2 DEF CopyOK, WillSetDraft, IsCurrent, Shown
<1>7. QED
  BY <1>3, <1>4, <1>5, <1>6 DEF IInv, Lists

-----------------------------------------------------------------------------
(* The effects.                                                            *)

\* A page that trusts its board and is not about to change it shows the newest.
LEMMA TrustedPageShowsNewest ==
  ASSUME IInv, NEW c \in Lists, c \notin missed, ~WillSetDraft
  PROVE  ShowsNewest
<1>1. "board" \notin missed
  BY DEF IInv, MissedOK, Copies, Lists
<1>2. handler = Idle \/ (handler # Idle /\ Unchanged(handler))
  BY DEF WillSetDraft
<1>3. QED
  BY <1>1, <1>2 DEF IInv, BoardOK

LEMMA RunEffectsKeepsIInv ==
  ASSUME IInv, RunEffects
  PROVE  IInv'
<1> DEFINE active == page.draft \notin {"absent", "setup"}
           asks == {c \in effects : IF c = "assistant" THEN page.draft = "in_progress"
                                                       ELSE active}
           New(c) == [copy |-> c, filter |-> page.filter, answer |-> Waiting,
                      clears |-> c = "assistant" /\ page.assistant = None]
<1>1. /\ effects' = {} /\ UNCHANGED <<drafts, handler, orphan, missed, mishaps>>
      /\ effects \subseteq Lists
  BY DEF RunEffects, IInv, TypesOK
<1>2. loads' = {l \in loads : l.copy \notin effects} \cup {New(c) : c \in asks}
  BY DEF RunEffects, Cleanup
<1>3. /\ IsPage(page') /\ page'.draft = page.draft /\ page'.board = page.board
      /\ page'.loading = page.loading /\ page'.filter = page.filter
      /\ active /\ "available" \notin effects => page'.available = page.available
      /\ active /\ "assistant" \notin effects => page'.assistant = page.assistant
  <2>1. page' = [page EXCEPT
             !.available = IF "available" \in effects /\ ~active THEN None ELSE @,
             !.assistant = IF ~active \/ ("assistant" \in effects \ asks)
                           THEN None ELSE @]
    BY DEF RunEffects
  <2>2. IsPage(page)
    BY DEF IInv, TypesOK
  <2> HIDE DEF active, asks
  <2>3. /\ IsPage(page') /\ page'.draft = page.draft /\ page'.board = page.board
        /\ page'.loading = page.loading /\ page'.filter = page.filter
        /\ page'.available = IF "available" \in effects /\ ~active THEN None ELSE page.available
        /\ page'.assistant = IF ~active \/ ("assistant" \in effects \ asks)
                             THEN None ELSE page.assistant
    BY <2>1, <2>2 DEF IsPage
  <2>4. QED
    BY <2>3
<1>4. \A c \in asks : /\ c \in effects /\ IsLoad(New(c)) /\ New(c).copy = c
                      /\ New(c).answer = Waiting /\ New(c).filter = page.filter
  BY <1>1, WaitingIs DEF IsLoad
<1>5. page.draft = "in_progress" => asks = effects
  OBVIOUS
<1>6. \A l \in loads' : \/ l \in loads /\ l.copy \notin effects
                        \/ /\ l.copy \in effects /\ IsLoad(l)
                           /\ l.answer = Waiting /\ l.filter = page.filter
  <2> HIDE DEF New, asks
  <2>1. QED
    BY <1>2, <1>4
<1>7. \A l \in loads : l.copy \notin effects => l \in loads'
  BY <1>2
<1>8. page.draft = "in_progress" => \A c \in effects : \E l \in loads' : l.copy = c
  <2> HIDE DEF New, asks
  <2>1. QED
    BY <1>2, <1>4, <1>5
<1>9. page.draft = "in_progress" => active
  OBVIOUS
<1> HIDE DEF New, asks, active
<1>10. TypesOK' /\ LoadingOK' /\ MissedOK'
  BY <1>1, <1>3, <1>6 DEF IInv, TypesOK, LoadingOK, MissedOK
<1>11. SearchOK'
  BY <1>3, <1>6 DEF IInv, SearchOK
<1>12. BoardOK'
  BY <1>1, <1>3 DEF IInv, BoardOK, ShowsNewest
<1>13. ASSUME NEW c \in Lists
       PROVE  CopyOK(c)'
  <2>1. SUFFICES ASSUME c \notin missed, ~WillSetDraft, page.draft = "in_progress"
                 PROVE  IsCurrent(c)'
    BY <1>1, <1>3 DEF CopyOK, WillSetDraft
  <2>2. CASE c \in effects
    <3>1. \A l \in loads' : l.copy = c => l.answer = Waiting
      BY <1>6, <2>2
    <3>2. ~ \A l \in loads' : l.copy # c
      BY <1>8, <2>1, <2>2
    <3>3. QED
      BY <3>1, <3>2 DEF IsCurrent
  <2>3. CASE c \notin effects
    <3>1. IsCurrent(c)
      BY <2>1, <2>3 DEF IInv, CopyOK
    <3>2. page'[c] = page[c] /\ Shown(c)' = Shown(c)
      BY <1>1, <1>3, <1>9, <2>1, <2>3 DEF Shown, Lists
    <3>3. \A l \in loads' : l.copy = c => l \in loads
      BY <1>6, <2>3
    <3>4. (\A l \in loads' : l.copy # c) => \A l \in loads : l.copy # c
      BY <1>7, <2>3
    <3>5. QED
      BY <1>1, <3>1, <3>2, <3>3, <3>4 DEF IsCurrent
  <2>4. QED
    BY <2>2, <2>3
<1>14. QED
  BY <1>10, <1>11, <1>12, <1>13 DEF IInv

LEMMA LoadAnswered ==
  ASSUME NEW l, IsLoad(l), NEW a, IsAnswer(a), NEW k, k = [l EXCEPT !.answer = a]
  PROVE  /\ IsLoad(k) /\ k.answer = a
         /\ k.copy = l.copy /\ k.filter = l.filter /\ k.clears = l.clears
BY DEF IsLoad

LEMMA LoadServedKeepsIInv ==
  ASSUME IInv, NEW l \in loads, LoadServed(l)
  PROVE  IInv'
<1>1. UNCHANGED <<drafts, page, handler, effects, orphan, missed, mishaps>>
  BY DEF LoadServed
<1>2. PICK a : a = Answer(drafts, l.copy, None)
  OBVIOUS
<1>3. IsLoad(l) /\ l.copy \in Lists /\ ServerOK(drafts)
  BY DEF IInv, TypesOK, IsLoad
<1>4. PICK es : Serves(drafts, es, l.copy, a)
  <2>1. l.copy \in Changes \cup Reads \cup Lists /\ l.copy # "pick"
    BY <1>3 DEF Lists
  <2>2. QED
    BY <1>2, <1>3, <2>1, AnswerServes
<1>5. es = drafts
  BY <1>3, <1>4 DEF Serves, Lists, Changes
<1>6. PICK k : k = [l EXCEPT !.answer = a]
  OBVIOUS
<1>7. loads' = (loads \ {l}) \cup {k}
  BY <1>2, <1>6 DEF LoadServed
<1>8. /\ IsLoad(k) /\ k.answer = a /\ k.copy = l.copy /\ k.filter = l.filter
  BY <1>3, <1>4, <1>6, LoadAnswered DEF Serves
<1>9. TypesOK' /\ LoadingOK' /\ MissedOK' /\ SearchOK' /\ BoardOK'
  BY <1>1, <1>7, <1>8 DEF IInv, TypesOK, LoadingOK, MissedOK, SearchOK, BoardOK, ShowsNewest
<1>10. ASSUME NEW c \in Lists
       PROVE  CopyOK(c)'
  <2>1. SUFFICES ASSUME c \notin missed, c \notin effects, ~WillSetDraft,
                        page.draft = "in_progress"
                 PROVE  IsCurrent(c)'
    BY <1>1 DEF CopyOK, WillSetDraft
  <2>2. IsCurrent(c)
    BY <2>1 DEF IInv, CopyOK
  <2>3. Newest(drafts).status = "in_progress"
    BY <2>1, TrustedPageShowsNewest DEF ShowsNewest
  <2>4. a = [kind |-> "ok", draft |-> Newest(drafts)]
    <3>1. a.kind = "ok" /\ a.draft = Newest(drafts) /\ IsAnswer(a)
      BY <1>3, <1>4, <1>5, <2>3 DEF Serves
    <3>2. QED
      BY <3>1 DEF IsAnswer, Faults
  <2>5. (\A m \in loads' : m.copy # c) => \A m \in loads : m.copy # c
    BY <1>7, <1>8
  <2>6. page'[c] = page[c] /\ Shown(c)' = Shown(c)
    BY <1>1 DEF Shown
  <2>7. \A m \in loads' : m \in loads \/ m = k
    BY <1>7
  <2>8. \A m \in loads' : m.copy = c =>
          m.answer = Waiting \/ m.answer = [kind |-> "ok", draft |-> Newest(drafts)]
    BY <1>8, <2>2, <2>4, <2>7 DEF IsCurrent
  <2>9. QED
    BY <1>1, <2>2, <2>5, <2>6, <2>8 DEF IsCurrent
<1>11. QED
  BY <1>9, <1>10 DEF IInv

LEMMA LoadFailsKeepsIInv ==
  ASSUME IInv, NEW l \in loads, LoadFails(l)
  PROVE  IInv'
<1>1. UNCHANGED <<drafts, page, handler, effects, orphan>> /\ missed' = missed \cup {l.copy}
  BY DEF LoadFails
<1>2. IsLoad(l) /\ l.copy \in Lists /\ l.copy \in Copies /\ l.copy # "board"
  BY DEF IInv, TypesOK, IsLoad, Lists, Copies
<1>3. PICK a : a = [kind |-> "failed"]
  OBVIOUS
<1>4. IsAnswer(a)
  BY <1>3 DEF IsAnswer, Faults
<1>5. PICK k : k = [l EXCEPT !.answer = a]
  OBVIOUS
<1>6. loads' = (loads \ {l}) \cup {k}
  BY <1>3, <1>5 DEF LoadFails
<1>7. IsLoad(k) /\ k.copy = l.copy /\ k.filter = l.filter
  BY <1>2, <1>4, <1>5, LoadAnswered
<1>8. TypesOK' /\ LoadingOK' /\ SearchOK' /\ BoardOK'
  BY <1>1, <1>2, <1>6, <1>7 DEF IInv, TypesOK, LoadingOK, SearchOK, BoardOK, ShowsNewest
<1>9. MissedOK'
  <2>1. missed = Copies => missed' = Copies
    BY <1>1, <1>2
  <2>2. "board" \in missed' => "board" \in missed
    BY <1>1, <1>2
  <2>3. QED
    BY <1>1, <2>1, <2>2 DEF IInv, MissedOK
<1>10. ASSUME NEW c \in Lists
       PROVE  CopyOK(c)'
  <2>1. SUFFICES ASSUME c \notin missed, c # l.copy, c \notin effects, ~WillSetDraft,
                        page.draft = "in_progress"
                 PROVE  IsCurrent(c)'
    BY <1>1 DEF CopyOK, WillSetDraft
  <2>2. IsCurrent(c)
    BY <2>1 DEF IInv, CopyOK
  <2>3. page'[c] = page[c] /\ Shown(c)' = Shown(c)
    BY <1>1 DEF Shown
  <2>4. (\A m \in loads' : m.copy # c) => \A m \in loads : m.copy # c
    BY <1>6, <2>1
  <2>5. \A m \in loads' : m.copy = c => m \in loads
    BY <1>6, <1>7, <2>1
  <2>6. QED
    BY <1>1, <2>2, <2>3, <2>4, <2>5 DEF IsCurrent
<1>11. QED
  BY <1>8, <1>9, <1>10 DEF IInv

LEMMA LoadLandsKeepsIInv ==
  ASSUME IInv, NEW l \in loads, LoadLands(l)
  PROVE  IInv'
<1>1. /\ UNCHANGED <<drafts, handler, effects, orphan, missed, mishaps>>
      /\ loads' = loads \ {l} /\ l.answer # Waiting
  BY DEF LoadLands
<1>2. IsLoad(l) /\ l.copy \in Lists /\ IsPage(page)
  BY DEF IInv, TypesOK, IsLoad
<1>3. PICK shown : shown = IF l.answer.kind = "ok" THEN [filter |-> l.filter, picks |-> l.answer.draft.picks]
                                                   ELSE None
  OBVIOUS
<1>4. PICK other : other = IF l.answer.kind = "ok" THEN [picks |-> l.answer.draft.picks]
                           ELSE IF l.clears THEN None ELSE page.assistant
  OBVIOUS
<1>5. /\ l.copy = "available" => page' = [page EXCEPT !.available = shown]
      /\ l.copy # "available" => page' = [page EXCEPT !.assistant = other]
  BY <1>3, <1>4 DEF LoadLands
<1>6. /\ IsPage(page') /\ page'.draft = page.draft /\ page'.board = page.board
      /\ page'.loading = page.loading /\ page'.filter = page.filter
      /\ page'.available = IF l.copy = "available" THEN shown ELSE page.available
      /\ page'.assistant = IF l.copy = "available" THEN page.assistant ELSE other
  <2>1. CASE l.copy = "available"
    BY <1>2, <1>5, <2>1 DEF IsPage
  <2>2. CASE l.copy # "available"
    BY <1>2, <1>5, <2>2 DEF IsPage
  <2>3. QED
    BY <2>1, <2>2
<1>7. TypesOK' /\ LoadingOK' /\ MissedOK' /\ SearchOK' /\ BoardOK'
  BY <1>1, <1>6 DEF IInv, TypesOK, LoadingOK, MissedOK, SearchOK, BoardOK, ShowsNewest
<1>8. ASSUME NEW c \in Lists
      PROVE  CopyOK(c)'
  <2>1. SUFFICES ASSUME c \notin missed, c \notin effects, ~WillSetDraft,
                        page.draft = "in_progress"
                 PROVE  IsCurrent(c)'
    BY <1>1, <1>6 DEF CopyOK, WillSetDraft
  <2>2. IsCurrent(c)
    BY <2>1 DEF IInv, CopyOK
  <2>3. Shown(c)' = Shown(c)
    BY <1>1, <1>6 DEF Shown
  <2>4. CASE l.copy = c
    <3>1. l.answer = [kind |-> "ok", draft |-> Newest(drafts)]
      BY <1>1, <2>2, <2>4 DEF IsCurrent
    <3>2. l.answer.kind = "ok" /\ l.answer.draft = Newest(drafts)
      BY <3>1
    <3>3. c = "available" => l.filter = page.filter
      BY <2>1, <2>4 DEF IInv, SearchOK
    <3>4. page'[c] = Shown(c)
      <4>1. CASE c = "available"
        BY <1>3, <1>6, <2>4, <3>2, <3>3, <4>1 DEF Shown
      <4>2. CASE c = "assistant"
        BY <1>4, <1>6, <2>4, <3>2, <4>2 DEF Shown
      <4>3. QED
        BY <4>1, <4>2 DEF Lists
    <3>5. QED
      BY <1>1, <2>2, <2>3, <3>4 DEF IsCurrent
  <2>5. CASE l.copy # c
    <3>1. page'[c] = page[c]
      BY <1>2, <1>6, <2>5 DEF Lists
    <3>2. QED
      BY <1>1, <2>2, <2>3, <2>5, <3>1 DEF IsCurrent
  <2>6. QED
    BY <2>4, <2>5
<1>9. QED
  BY <1>7, <1>8 DEF IInv

-----------------------------------------------------------------------------
(* Leaving the page, and requests nobody waits for.                        *)

LEMMA NewHandler ==
  ASSUME NEW h, h = Run("load", None, "league")
  PROVE  IsHandler(h) /\ h.answer = Waiting /\ h.at = "league" /\ h.at \in Reads /\ h.does = "load"
<1>1. /\ h.answer = Waiting /\ h.at = "league" /\ h.does = "load"
      /\ h = [does |-> h.does, player |-> h.player, at |-> h.at, answer |-> h.answer,
              board |-> h.board]
  BY DEF Run
<1>2. "league" \in Reads \ Changes
  BY DEF Reads, Changes
<1>3. QED
  BY <1>1, <1>2, WaitingIs DEF IsHandler

LEMMA FreshIs == IsPage(Fresh) /\ Fresh.draft = "absent"
BY DEF IsPage, Fresh

LEMMA LeaveKeepsIInv ==
  ASSUME IInv, Leave
  PROVE  IInv'
<1>1. /\ IsHandler(handler') /\ handler'.answer = Waiting /\ handler'.at = "league"
      /\ handler'.at \in Reads /\ handler'.does = "load"
  BY NewHandler DEF Leave
<1>2. page' = Fresh /\ loads' = {} /\ effects' = {} /\ UNCHANGED drafts
  BY DEF Leave
<1>3. handler' # Idle /\ BoardOK' /\ \A c \in Lists : CopyOK(c)'
  BY <1>1, OnTheWay
<1>4. CASE UNCHANGED <<orphan, missed>>
  <2>1. TypesOK' /\ LoadingOK' /\ SearchOK'
    BY <1>1, <1>2, <1>4, FreshIs DEF IInv, TypesOK, LoadingOK, SearchOK
  <2>2. MissedOK'
    BY <1>1, <1>4 DEF IInv, MissedOK, Waiting, Faults
  <2>3. QED
    BY <1>3, <2>1, <2>2 DEF IInv
<1>5. CASE /\ handler # Idle /\ handler.at \in Changes
           /\ orphan' = [at |-> handler.at, player |-> handler.player]
           /\ missed' = Copies
  <2>1. /\ orphan' = [at |-> orphan'.at, player |-> orphan'.player]
        /\ orphan'.at \in Changes
        /\ orphan'.at = "pick" => orphan'.player \in Players
    BY <1>5 DEF IInv, TypesOK, IsHandler
  <2>2. TypesOK' /\ LoadingOK' /\ SearchOK'
    BY <1>1, <1>2, <1>5, <2>1, FreshIs DEF IInv, TypesOK, LoadingOK, SearchOK
  <2>3. MissedOK'
    BY <1>5 DEF MissedOK
  <2>4. QED
    BY <1>3, <2>2, <2>3 DEF IInv
<1>6. QED
  BY <1>4, <1>5 DEF Leave

LEMMA OrphanKeepsIInv ==
  ASSUME IInv, OrphanServed \/ OrphanDropped
  PROVE  IInv'
<1>1. CASE OrphanServed
  <2>1. /\ orphan # None /\ orphan' = None /\ missed' = Copies
        /\ UNCHANGED <<page, handler, loads, effects, mishaps>>
    BY <1>1 DEF OrphanServed
  <2>2. PICK a : Serves(drafts, drafts', orphan.at, a)
    <3>1. /\ orphan.at \in Changes \cup Reads \cup Lists /\ ServerOK(drafts)
          /\ orphan.at = "pick" => orphan.player \in Players
      BY <2>1 DEF IInv, TypesOK
    <3>2. QED
      BY <1>1, <3>1, AnswerServes DEF OrphanServed
  <2>3. TypesOK' /\ LoadingOK' /\ SearchOK'
    BY <2>1, <2>2 DEF IInv, TypesOK, LoadingOK, SearchOK, Serves
  <2>4. MissedOK' /\ BoardOK' /\ \A c \in Lists : CopyOK(c)'
    BY <2>1 DEF MissedOK, BoardOK, CopyOK, Copies, Lists
  <2>5. QED
    BY <2>3, <2>4 DEF IInv
<1>2. CASE OrphanDropped
  BY <1>2 DEF OrphanDropped, IInv, TypesOK, LoadingOK, MissedOK, SearchOK, BoardOK,
      ShowsNewest, CopyOK, WillSetDraft, IsCurrent, Shown
<1>3. QED
  BY <1>1, <1>2

-----------------------------------------------------------------------------
(* The theorems.                                                           *)

LEMMA InitIInv == Init => IInv
<1> SUFFICES ASSUME Init
             PROVE  IInv
  OBVIOUS
<1>1. /\ drafts = <<>> /\ page = Fresh /\ loads = {} /\ effects = {} /\ orphan = None /\ missed = {}
      /\ IsHandler(handler) /\ handler.answer = Waiting /\ handler.at = "league" /\ handler.does = "load"
  BY NewHandler DEF Init
<1>2. handler # Idle /\ handler.answer.kind = "waiting"
  BY <1>1, HandlerIsNotIdle DEF Waiting
<1>3. ServerOK(drafts)
  BY <1>1 DEF ServerOK
<1>4. "league" \notin Changes
  BY DEF Changes
<1>5. TypesOK /\ LoadingOK /\ SearchOK
  BY <1>1, <1>3, FreshIs DEF TypesOK, LoadingOK, SearchOK
<1>6. MissedOK /\ BoardOK /\ \A c \in Lists : CopyOK(c)
  BY <1>1, <1>2, <1>4 DEF MissedOK, BoardOK, CopyOK, WillSetDraft, Unchanged, HasDraft, Faults
<1>7. QED
  BY <1>5, <1>6 DEF IInv

LEMMA NextIInv == IInv /\ [Next]_vars => IInv'
<1> SUFFICES ASSUME IInv, [Next]_vars
             PROVE  IInv'
  OBVIOUS
<1>1. CASE Clicks
  <2>1. CASE \E does \in Changes \ {"pick"} : Click(does, None)
    BY <2>1, ClickKeepsIInv
  <2>2. CASE \E p \in Players : Click("pick", p)
    BY <2>2, ClickKeepsIInv DEF Changes
  <2>3. QED
    BY <1>1, <2>1, <2>2 DEF Clicks
<1>2. CASE HandlerStep
  BY <1>2, HandlerServedKeepsIInv, HandlerFailsKeepsIInv, LandLeagueKeepsIInv,
     LandDraftKeepsIInv, LandTeamsKeepsIInv, LandBoardKeepsIInv, LandAssistantKeepsIInv,
     LandChangeKeepsIInv DEF HandlerStep
<1>3. CASE EffectStep
  BY <1>3, RunEffectsKeepsIInv, LoadServedKeepsIInv, LoadFailsKeepsIInv, LoadLandsKeepsIInv
     DEF EffectStep
<1>4. CASE Search \/ Leave \/ OrphanServed \/ OrphanDropped
  BY <1>4, SearchKeepsIInv, LeaveKeepsIInv, OrphanKeepsIInv
<1>5. CASE UNCHANGED vars
  BY <1>5 DEF vars, IInv, TypesOK, LoadingOK, MissedOK, SearchOK, BoardOK,
      ShowsNewest, CopyOK, WillSetDraft, IsCurrent, Shown
<1>6. QED
  BY <1>1, <1>2, <1>3, <1>4, <1>5 DEF Next

\* The invariant: what the page may trust, given what its handler and its
\* effects are about to do.
THEOREM PageStaysConsistent == Spec => []IInv
BY InitIInv, NextIInv, PTL DEF Spec

\* Whatever order the answers come in and however many of them fail, the board,
\* the recommendations and the list of players of a page at rest are those of the
\* server's newest draft, each unless its own last load has failed.
THEOREM QuietPageShowsTheServer == Spec => []QuietPageIsCurrent
<1>1. IInv => QuietPageIsCurrent
  <2>1. SUFFICES ASSUME IInv, Quiet
                 PROVE  QuietPageIsCurrent
    BY DEF QuietPageIsCurrent
  <2>2. "board" \notin missed => ShowsNewest
    BY <2>1 DEF Quiet, IInv, BoardOK
  <2>3. ASSUME NEW c \in Lists, c \notin missed, page.draft = "in_progress"
        PROVE  page[c] = Shown(c)
    <3>1. IsCurrent(c)
      BY <2>1, <2>3 DEF Quiet, IInv, CopyOK, WillSetDraft
    <3>2. QED
      BY <2>1, <3>1 DEF Quiet, IsCurrent
  <2>4. "assistant" \notin missed /\ page.draft = "in_progress" =>
           page.assistant = [picks |-> Newest(drafts).picks]
    BY <2>3 DEF Shown, Lists
  <2>5. "available" \notin missed /\ page.draft = "in_progress" =>
           page.available = [filter |-> page.filter, picks |-> Newest(drafts).picks]
    BY <2>3 DEF Shown, Lists
  <2>6. QED
    BY <2>2, <2>4, <2>5 DEF QuietPageIsCurrent
<1>2. QED
  BY <1>1, PageStaysConsistent, PTL

\* A change that the page's handler makes at the server meets the draft the page
\* shows, as long as the page has no reason to distrust its board: no answer can
\* come between what was clicked and what it does.
THEOREM ChangesMeetWhatIsShown == Spec => ActsOnWhatIsShown
<1> DEFINE Meets == \A before \in {drafts} :
       (/\ handler # Idle /\ handler.at \in Changes
        /\ drafts' # before /\ orphan' = orphan
        /\ "board" \notin missed) => ShowsNewest
<1>1. IInv /\ [Next]_vars => [Meets]_vars
  <2> SUFFICES ASSUME IInv, Next, handler # Idle, handler.at \in Changes,
                      drafts' # drafts, orphan' = orphan, "board" \notin missed
               PROVE  ShowsNewest
    OBVIOUS
  <2>1. HandlerServed
    BY DEF Next, Clicks, Click, HandlerStep, HandlerFails, LandLeague, LandDraft, LandTeams,
           LandBoard, LandAssistant, LandChange, EffectStep, RunEffects, LoadServed, LoadFails,
           LoadLands, Search, Leave, OrphanServed, OrphanDropped
  <2>2. Unchanged(handler)
    BY <2>1 DEF HandlerServed, Unchanged
  <2>3. QED
    BY <2>2 DEF IInv, BoardOK
<1>2. QED
  BY <1>1, PageStaysConsistent, PTL DEF Spec, ActsOnWhatIsShown
=============================================================================
