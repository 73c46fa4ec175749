------------------------------ MODULE DraftPage ------------------------------
(***************************************************************************)
(* The draft page of the browser application and the server it talks to:   *)
(*   frontend/src/features/draft/DraftPage.tsx                             *)
(*   frontend/src/shared/useDebouncedValue.ts, frontend/src/App.tsx        *)
(*                                                                         *)
(* The page is the only client.  It keeps copies of what it has been told: *)
(* the draft's status, the board, the recommendations, the list of players *)
(* that are left.  A click starts a handler, an async function that awaits *)
(* one request after another; every new draft object also runs the two     *)
(* effects again, which drop their earlier request and send a new one.  The *)
(* server serves a request at some moment between sending and answering,   *)
(* and any answer can fail to come back.                                   *)
(***************************************************************************)
EXTENDS Naturals, Sequences, SequencesExt

CONSTANTS Players,      \* the players that can be drafted
          TotalPicks,   \* picks of a complete draft
          MaxSearches,  \* bound: searches on one page, each for another text
          MaxDrafts,    \* bound: drafts the database ever holds at once
          MaxMishaps    \* bound: answers that fail and times the page is left

ASSUME DraftPageAssumption ==
  TotalPicks \in Nat \ {0} /\ MaxSearches \in Nat /\ MaxDrafts \in Nat \ {0} /\ MaxMishaps \in Nat

VARIABLES
  drafts,    \* the server's drafts, newest last: [status, picks]
  page,      \* the page's React state
  handler,   \* the handler that runs (isSaving, or isLoading for the first)
  loads,     \* the requests the effects have sent and not given up
  effects,   \* the effects that the last rendering has scheduled
  orphan,    \* a change whose caller is gone and the server may still serve
  missed,    \* ghost: the copies the page has reason to distrust
  mishaps    \* the failures and departures so far

vars == <<drafts, page, handler, loads, effects, orphan, missed, mishaps>>

None    == [none |-> TRUE]
Idle    == None
Waiting == [kind |-> "waiting"]
Copies  == {"board", "assistant", "available"}

-----------------------------------------------------------------------------
(* The server: what each endpoint accepts, does and answers                *)

Newest(ds) == IF ds = <<>> THEN [status |-> "absent", picks |-> <<>>]
                           ELSE Last(ds)

WithNewest(ds, d) == [ds EXCEPT ![Len(ds)] = d]

Changes == {"create", "save", "start", "pick", "undo", "reset", "delete"}

HasAssistant(d) == d.status = "in_progress"             \* GET /draft/assistant
HasAvailable(d) == d.status \in {"setup", "in_progress"} \* GET /valuations

Accepts(ds, at, player) ==
  LET d == Newest(ds) IN
  CASE at = "league"    -> TRUE
    [] at = "create"    -> d.status \in {"absent", "completed"} /\ Len(ds) < MaxDrafts
    [] at \in {"save", "start"}  -> d.status = "setup"
    [] at \in {"pick"}  -> d.status = "in_progress" /\ player \notin ToSet(d.picks)
    [] at = "undo"      -> d.picks # <<>>
    [] at = "delete"    -> d.status \in {"setup", "in_progress"}
    [] at = "assistant" -> HasAssistant(d)
    [] at = "available" -> HasAvailable(d)
    [] OTHER            -> d.status # "absent"   \* draft, teams, board, reset

After(ds, at, player) ==
  LET d == Newest(ds) IN
  CASE at = "create" -> Append(ds, [status |-> "setup", picks |-> <<>>])
    [] at = "start"  -> WithNewest(ds, [d EXCEPT !.status = "in_progress"])
    [] at = "pick"   -> LET picks == Append(d.picks, player) IN
         WithNewest(ds, [picks  |-> picks,
                         status |-> IF Len(picks) = TotalPicks THEN "completed"
                                                               ELSE "in_progress"])
    [] at = "undo"   -> WithNewest(ds, [picks |-> Front(d.picks),
                                        status |-> "in_progress"])
    [] at = "reset"  -> WithNewest(ds, [status |-> "setup", picks |-> <<>>])
    [] at = "delete" -> Front(ds)
    [] OTHER         -> ds

(* An answer: served with the state it shows, or refused (a 4xx).  Two      *)
(* more kinds come from the way back: failed (the proxy's 5xx) and lost (the *)
(* fetch itself rejects).                                                  *)
Answer(ds, at, player) ==
  IF Accepts(ds, at, player)
  THEN [kind |-> "ok", draft |-> Newest(After(ds, at, player))]
  ELSE [kind |-> "refused"]

Faults == {"failed", "lost"}

-----------------------------------------------------------------------------
(* The page                                                                *)

Fresh == [league    |-> FALSE,      draft     |-> "absent", board |-> None,
          assistant |-> None,       available |-> None,
          filter    |-> 0,
          loading   |-> TRUE]

Run(does, player, at) ==
  [does |-> does, player |-> player, at |-> at, answer |-> Waiting, board |-> None]

Init == /\ drafts = <<>>
        /\ page = Fresh
        /\ handler = Run("load", None, "league")
        /\ loads = {}
        /\ effects = {}
        /\ orphan = None
        /\ missed = {}
        /\ mishaps = 0

Mishap == mishaps < MaxMishaps /\ mishaps' = mishaps + 1

(* What the page lets the user click: each panel is rendered for its        *)
(* statuses, from the copies the page has.                                 *)
Offered(does, player) ==
  CASE does = "create" -> page.draft = "absent" /\ page.league
    [] does \in {"save", "start", "delete"} -> page.draft = "setup"
    [] does = "reset"  -> \/ page.draft = "setup"
                          \/ (page.draft # "absent" /\ page.board # None)
    [] does = "undo"   -> /\ page.draft \notin {"absent", "setup"}
                          /\ page.board # None
                          /\ page.board.picks # <<>>
    [] does = "pick"   -> /\ page.draft = "in_progress"
                          /\ page.board # None
                          /\ \E list \in {page.assistant, page.available} \ {None} :
                               player \notin ToSet(list.picks)

Enabled == handler = Idle       \* ~isSaving

(* A click.  React runs the effects that are due before it.  resetDraft     *)
(* empties the lists before it asks the server.                            *)
Click(does, player) ==
  /\ ~page.loading /\ effects = {} /\ Enabled
  /\ Offered(does, player)
  /\ handler' = Run(does, player, does)
  /\ page' = IF does = "reset"
             THEN [page EXCEPT !.assistant = None, !.available = None]
             ELSE page
  /\ UNCHANGED <<drafts, loads, effects, orphan, missed, mishaps>>

Clicks == \/ \E does \in Changes \ {"pick"} : Click(does, None)
          \/ \E p \in Players : Click("pick", p)

(* The server serves the request the handler awaits.                       *)
HandlerServed ==
  /\ handler # Idle /\ handler.answer = Waiting
  /\ handler' = [handler EXCEPT !.answer = Answer(drafts, handler.at, handler.player)]
  /\ drafts' = IF Accepts(drafts, handler.at, handler.player)
               THEN After(drafts, handler.at, handler.player) ELSE drafts
  /\ UNCHANGED <<page, loads, effects, orphan, missed, mishaps>>

(* The answer fails on its way, or the request was given up before it was   *)
(* served: then a change may still be served later.                        *)
HandlerFails(fault) ==
  /\ handler # Idle
  /\ handler.answer = Waiting \/ handler.answer.kind \in {"ok", "refused"}
  /\ handler' = [handler EXCEPT !.answer = [kind |-> fault]]
  /\ IF handler.at \in Changes /\ handler.answer = Waiting
     THEN orphan = None /\ orphan' = [at |-> handler.at, player |-> handler.player]
     ELSE orphan' = orphan
  /\ missed' = Copies
  /\ Mishap
  /\ UNCHANGED <<drafts, page, loads, effects>>

Stop        == handler' = Idle
Continue(at) == handler' = [handler EXCEPT !.at = at, !.answer = Waiting]
Landed(at)  == /\ handler # Idle /\ handler.at = at
               /\ handler.answer # Waiting
Ok          == handler.answer.kind = "ok"
Lost        == handler.answer.kind = "lost"

(* setDraft with a new object: both effects depend on it.                  *)
SetDraft == effects' = {"assistant", "available"}

(* A board on the page shows the newest draft again: nothing is in doubt.  *)
CaughtUp(d) == missed' = IF Newest(drafts) = d /\ orphan = None THEN {} ELSE missed

LandLeague ==
  /\ Landed("league")
  /\ page' = [page EXCEPT !.league = Ok]
  /\ Continue("draft")
  /\ UNCHANGED <<drafts, loads, effects, orphan, missed, mishaps>>

(* loadDraft: a 404 is an answer, any other status an error message; a      *)
(* rejection leaves loadInitialState before it clears isLoading.           *)
LandDraft ==
  /\ Landed("draft")
  /\ UNCHANGED <<drafts, loads, orphan, mishaps>>
  /\ \/ /\ Ok
        /\ page' = [page EXCEPT !.draft = handler.answer.draft.status]
        /\ SetDraft
        /\ Continue(IF handler.answer.draft.status = "setup" THEN "teams" ELSE "board")
        /\ UNCHANGED missed
     \/ /\ handler.answer.kind \in {"refused", "failed"}
        /\ page' = [page EXCEPT !.loading = FALSE]
        /\ Stop
        /\ IF handler.answer.kind = "refused" THEN CaughtUp(Newest(<<>>))
                                              ELSE missed' = missed
        /\ UNCHANGED effects
     \/ /\ Lost
        /\ Stop
        /\ UNCHANGED <<page, effects, missed>>

(* loadSetupTeams fills the form; only a rejection ends the handler.       *)
LandTeams ==
  /\ Landed("teams")
  /\ IF Lost THEN Stop ELSE Continue("board")
  /\ UNCHANGED <<drafts, page, loads, effects, orphan, missed, mishaps>>

(* loadBoard, and loadBoardData within draftPlayer, which goes on to the     *)
(* assistant before it shows the board.                                    *)
LandBoard ==
  /\ Landed("board")
  /\ UNCHANGED <<drafts, loads, orphan, mishaps>>
  /\ IF handler.does = "pick"
     THEN /\ handler' = IF Lost THEN Idle
                        ELSE [handler EXCEPT !.at = "assistant", !.answer = Waiting,
                                !.board = IF Ok THEN handler.answer.draft ELSE None]
          /\ UNCHANGED <<page, effects, missed>>
     ELSE /\ Stop
          /\ IF Ok
             THEN /\ page' = [page EXCEPT !.board = handler.answer.draft,
                                          !.draft = handler.answer.draft.status,
                                          !.loading = FALSE]
                  /\ SetDraft
                  /\ CaughtUp(handler.answer.draft)
             ELSE /\ page' = [page EXCEPT !.loading = @ /\ Lost]
                  /\ UNCHANGED <<effects, missed>>

(* The end of draftPlayer: refreshAssistant shows what it got, then the      *)
(* board that was fetched before it is shown.                              *)
LandAssistant ==
  /\ Landed("assistant")
  /\ Stop
  /\ LET shown == IF Ok THEN [page EXCEPT !.assistant = [picks |-> handler.answer.draft.picks]]
                        ELSE page
     IN  IF handler.board # None
         THEN /\ page' = [shown EXCEPT !.board = handler.board,
                                       !.draft = handler.board.status]
              /\ SetDraft
              /\ CaughtUp(handler.board)
         ELSE page' = shown /\ UNCHANGED <<effects, missed>>
  /\ UNCHANGED <<drafts, loads, orphan, mishaps>>

(* What a handler awaits after its change.                                 *)
AfterChange_NoReload(does) ==                    \* an undo that awaits no board
  IF does \in {"delete", "undo"} THEN "end"
  ELSE IF does = "reset" THEN "teams" ELSE "board"
AfterChange(does) ==
  CASE does = "delete" -> "end"
    [] does = "reset"  -> "teams"
    [] OTHER           -> "board"

LandChange ==
  /\ handler # Idle /\ handler.at \in Changes /\ handler.answer # Waiting
  /\ IF Ok
     THEN /\ IF AfterChange(handler.does) = "end"
             THEN Stop ELSE Continue(AfterChange(handler.does))
          /\ CASE handler.does \in {"create", "save", "start", "reset"} ->
                    /\ page' = [page EXCEPT !.draft = handler.answer.draft.status]
                    /\ SetDraft
               [] handler.does = "delete" ->
                    /\ page' = [page EXCEPT !.draft = "absent", !.board = None]
                    /\ SetDraft
               [] OTHER -> UNCHANGED <<page, effects>>
     ELSE Stop /\ UNCHANGED <<page, effects>>
  /\ UNCHANGED <<drafts, loads, orphan, missed, mishaps>>

HandlerStep == \/ HandlerServed
               \/ \E fault \in Faults : HandlerFails(fault)
               \/ LandLeague \/ LandDraft \/ LandTeams
               \/ LandBoard \/ LandAssistant \/ LandChange

-----------------------------------------------------------------------------
(* The effects                                                             *)

(* The cleanup functions: abort, and ignore what still comes.              *)
Cleanup_None(due) == loads
Cleanup(due) == {l \in loads : l.copy \notin due}

(* Run the effects that are due, on the state of this rendering.           *)
RunEffects ==
  /\ effects # {}
  /\ LET active == page.draft \notin {"absent", "setup"}
         asks == {c \in effects : IF c = "assistant" THEN page.draft = "in_progress"
                                                     ELSE active}
     IN /\ loads' = Cleanup(effects)
             \cup {[copy |-> c, filter |-> page.filter, answer |-> Waiting,
                    clears |-> c = "assistant" /\ page.assistant = None] : c \in asks}
        /\ page' = [page EXCEPT
             !.available = IF "available" \in effects /\ ~active THEN None ELSE @,
             !.assistant = IF ~active \/ ("assistant" \in effects \ asks)
                           THEN None ELSE @]
  /\ effects' = {}
  /\ UNCHANGED <<drafts, handler, orphan, missed, mishaps>>

LoadServed(l) ==
  /\ l.answer = Waiting
  /\ loads' = (loads \ {l}) \cup {[l EXCEPT !.answer = Answer(drafts, l.copy, None)]}
  /\ UNCHANGED <<drafts, page, handler, effects, orphan, missed, mishaps>>

LoadFails(l) ==
  /\ l.answer = Waiting
  /\ loads' = (loads \ {l}) \cup {[l EXCEPT !.answer = [kind |-> "failed"]]}
  /\ missed' = missed \cup {l.copy}
  /\ Mishap
  /\ UNCHANGED <<drafts, page, handler, effects, orphan>>

(* A mutant also sets the draft from the assistant's answer, as loadBoard does *)
(* from the board's.                                                        *)
LoadLands_SetsDraft(l) ==
  /\ l.answer # Waiting
  /\ loads' = loads \ {l}
  /\ page' = [page EXCEPT ![l.copy] =
       IF l.answer.kind # "ok" THEN @
       ELSE IF l.copy = "available" THEN [filter |-> l.filter, picks |-> l.answer.draft.picks]
       ELSE [picks |-> l.answer.draft.picks]]
  /\ IF l.copy = "assistant" THEN SetDraft ELSE UNCHANGED effects
  /\ UNCHANGED <<drafts, handler, orphan, missed, mishaps>>

(* A failed refresh keeps the recommendations that were shown; a failed list *)
(* of players is emptied.                                                  *)
LoadLands(l) ==
  /\ l.answer # Waiting
  /\ loads' = loads \ {l}
  /\ LET ok == l.answer.kind = "ok" IN
     page' = IF l.copy = "available"
             THEN [page EXCEPT !.available =
                     IF ok THEN [filter |-> l.filter, picks |-> l.answer.draft.picks]
                           ELSE None]
             ELSE [page EXCEPT !.assistant = IF ok THEN [picks |-> l.answer.draft.picks]
                                             ELSE IF l.clears THEN None ELSE @]
  /\ UNCHANGED <<drafts, handler, effects, orphan, missed, mishaps>>

EffectStep == \/ RunEffects
              \/ \E l \in loads : LoadServed(l) \/ LoadFails(l) \/ LoadLands(l)

-----------------------------------------------------------------------------
(* Searching, leaving the page, and requests nobody waits for                 *)

(* The timer of useDebouncedValue fires: the search becomes the last value   *)
(* typed, and what was typed before it is never asked for.                 *)
Search ==
  /\ ~page.loading /\ page.draft = "in_progress" /\ page.board # None
  /\ page.filter < MaxSearches
  /\ page' = [page EXCEPT !.filter = @ + 1]
  /\ effects' = effects \cup {"available"}
  /\ UNCHANGED <<drafts, handler, loads, orphan, missed, mishaps>>

(* Another tab and back: App unmounts the page and mounts a new one, which   *)
(* knows nothing of a handler that was running.                            *)
Leave ==
  /\ Mishap
  /\ page' = Fresh
  /\ handler' = Run("load", None, "league")
  /\ loads' = {}
  /\ effects' = {}
  /\ IF handler # Idle /\ handler.at \in Changes /\ handler.answer = Waiting
     THEN /\ orphan = None
          /\ orphan' = [at |-> handler.at, player |-> handler.player]
          /\ missed' = Copies
     ELSE UNCHANGED <<orphan, missed>>
  /\ UNCHANGED drafts

OrphanServed ==
  /\ orphan # None
  /\ drafts' = IF Accepts(drafts, orphan.at, orphan.player)
               THEN After(drafts, orphan.at, orphan.player) ELSE drafts
  /\ orphan' = None
  /\ missed' = Copies
  /\ UNCHANGED <<page, handler, loads, effects, mishaps>>

OrphanDropped ==
  /\ orphan # None
  /\ orphan' = None
  /\ UNCHANGED <<drafts, page, handler, loads, effects, missed, mishaps>>

Next == \/ Clicks \/ HandlerStep \/ EffectStep
        \/ Search \/ Leave \/ OrphanServed \/ OrphanDropped

Spec == Init /\ [][Next]_vars

(* Requests are served and answered or fail, what has landed is handled, and *)
(* due effects run; nobody has to click or search.                          *)
Progress == \/ HandlerServed
            \/ LandLeague \/ LandDraft \/ LandTeams
            \/ LandBoard \/ LandAssistant \/ LandChange
            \/ RunEffects \/ \E l \in loads : LoadServed(l) \/ LoadLands(l)
            \/ OrphanServed \/ OrphanDropped

FairSpec == Spec /\ WF_vars(Progress)

-----------------------------------------------------------------------------
(* Properties                                                              *)

(* The page's draft and board are the server's newest draft.  A page        *)
(* without a draft says only that none is under way: after a deletion it    *)
(* does not look for an older, completed one.                              *)
ShowsNewest ==
  IF page.draft = "absent"
  THEN Newest(drafts).status \in {"absent", "completed"}
  ELSE page.board = Newest(drafts) /\ page.draft = Newest(drafts).status

(* A change the page asks for meets the draft the page shows: the undo that  *)
(* names no pick removes the pick the board shows last, a pick takes the    *)
(* turn shown, unless an answer failed to come back and the page has not    *)
(* loaded a board since.  It rests on the buttons that stay disabled until  *)
(* the board is reloaded (isSaving), for the API checks none of it.        *)
ActsOnWhatIsShown ==
  [][\A before \in {drafts} :
       (/\ handler # Idle /\ handler.at \in Changes
        /\ drafts' # before /\ orphan' = orphan
        /\ "board" \notin missed) => ShowsNewest]_vars

Quiet == /\ handler = Idle /\ ~page.loading /\ orphan = None
         /\ loads = {} /\ effects = {}

(* When nothing is under way, every copy whose last load did not fail is    *)
(* current: board, recommendations and the list of players agree with one   *)
(* another and with the server, whatever order the answers came in.        *)
QuietPageIsCurrent ==
  Quiet =>
    /\ "board" \notin missed => ShowsNewest
    /\ "assistant" \notin missed /\ page.draft = "in_progress" =>
         page.assistant = [picks |-> Newest(drafts).picks]
    /\ "available" \notin missed /\ page.draft = "in_progress" =>
         page.available = [filter |-> page.filter, picks |-> Newest(drafts).picks]

UserActs == Clicks \/ Search

(* Nothing is under way, and only a lost answer has left the page loading.   *)
AtRest == /\ handler = Idle /\ effects = {} /\ loads = {} /\ orphan = None
          /\ page.loading => missed # {}

(* Once the user does nothing more, the page comes to rest: every handler    *)
(* gives its buttons back, and the effects, which every new draft object     *)
(* runs again and whose answers change the state they depend on, do not       *)
(* keep each other going.  At rest, QuietPageIsCurrent holds.               *)
ComesToRest == <>[][~UserActs]_vars => <>[]AtRest
=============================================================================
