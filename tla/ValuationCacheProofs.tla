------------------------- MODULE ValuationCacheProofs -------------------------
(***************************************************************************)
(* Theorems about ValuationCache, for any numbers of requests and imports, *)
(* any settings, and any bound on the cache: whoever computes a snapshot   *)
(* and whatever is saved meanwhile, a request is answered for the league   *)
(* and set it has read, and what it can join is alive.                     *)
(*                                                                         *)
(* IInv is inductive.  It says of the cache that an entry's value belongs  *)
(* to its key, of a request that waits for another one's task that the     *)
(* two have read the same league and set, and of both that what they have  *)
(* read stays as it is until they are answered.                            *)
(***************************************************************************)
EXTENDS ValuationCache, FiniteSetTheorems, SequenceTheorems, TLAPS

IsLeague(l) == l = [teams |-> l.teams, rules |-> l.rules, slots |-> l.slots]

Fields(q) == [pc |-> q.pc, league |-> q.league, set |-> q.set, key |-> q.key,
              seen |-> q.seen, task |-> q.task, on |-> q.on, reply |-> q.reply]

IsRequest(q) ==
  /\ q = Fields(q)
  /\ q.pc \in {"idle", "context", "key", "joined", "computing", "done", "failed"}
  /\ q.task \in {"none", "running", "ready", "failed"}
  /\ IsLeague(q.league)

(* What is cached or answered is of this league and set. *)
Belongs(key, l, set) == key.league = Fingerprint(l) /\ key.set = set
Answers(value, q) == value.league = q.league /\ value.set = q.set

(* A request, given all of them. *)
GoodRequest(q, all) ==
  /\ q.pc = "done" \/ q.task = "ready" => Answers(q.reply, q)
  /\ q.task # "none" => q.pc \in {"computing", "done", "failed"}
  /\ q.task = "running" => q.pc = "computing"
  /\ q.pc = "computing" => q.task # "none" /\ Belongs(q.key, q.league, q.set)
  /\ q.pc = "joined" =>
       /\ q.on \in Requests /\ all[q.on].task # "none"
       /\ all[q.on].league = q.league /\ all[q.on].set = q.set

RequestsOK ==
  /\ req = [r \in Requests |-> req[r]]
  /\ \A r \in Requests : IsRequest(req[r]) /\ GoodRequest(req[r], req)

Entry(e) == e.key.league = Fingerprint(e.value.league) /\ e.key.set = e.value.set
            /\ IsLeague(e.value.league)

Keyless(c) == \A i, j \in DOMAIN c : c[i].key = c[j].key => i = j
GoodEntries(c) ==
  /\ \E S : c \in Seq(S)
  /\ \A i \in DOMAIN c : Entry(c[i])
  /\ Keyless(c)
CacheOK == GoodEntries(cache) /\ Len(cache) <= MaxEntries

TasksOK ==
  /\ inFlight = [k \in DOMAIN inFlight |-> inFlight[k]]
  /\ \A k \in DOMAIN inFlight :
       /\ inFlight[k] \in Requests
       /\ req[inFlight[k]].pc = "computing" /\ req[inFlight[k]].key = k
       /\ k.league = latest

IInv == RequestsOK /\ CacheOK /\ TasksOK

-----------------------------------------------------------------------------
(* The cache                                                               *)

(* The fingerprint tells leagues apart by all that a snapshot depends on.  *)
LEMMA FingerprintIsExact ==
  ASSUME NEW a, NEW b, IsLeague(a), IsLeague(b), Fingerprint(a) = Fingerprint(b)
  PROVE  a = b
BY DEF IsLeague, Fingerprint

(* What RemoveAt of the community modules returns. *)
LEMMA RemoveAtProperties ==
  ASSUME NEW S, NEW c \in Seq(S), NEW at \in 1 .. Len(c)
  PROVE  /\ RemoveAt(c, at) \in Seq(S)
         /\ Len(RemoveAt(c, at)) = Len(c) - 1
         /\ \A i \in 1 .. Len(c) - 1 :
              RemoveAt(c, at)[i] = c[IF i < at THEN i ELSE i + 1]
<1>0. /\ Len(c) \in Nat /\ at \in Int /\ 1 <= at /\ at <= Len(c)
      /\ \A i \in 1 .. Len(c) : c[i] \in S
  BY LenProperties, ElementOfSeq
<1> DEFINE before == SubSeq(c, 1, at - 1)
           after  == SubSeq(c, at + 1, Len(c))
<1>1. /\ before \in Seq(S) /\ Len(before) = at - 1
      /\ \A i \in 1 .. at - 1 : before[i] = c[i]
  <2>1. \A i \in 1 .. at - 1 : c[i] \in S
    BY <1>0
  <2>2. /\ before \in Seq(S)
        /\ Len(before) = IF 1 <= at - 1 THEN (at - 1) - 1 + 1 ELSE 0
        /\ \A i \in 1 .. (at - 1) - 1 + 1 : before[i] = c[1 + i - 1]
    BY <1>0, <2>1, SubSeqProperties
  <2>. QED BY <1>0, <2>2
<1>2. /\ after \in Seq(S) /\ Len(after) = Len(c) - at
      /\ \A i \in 1 .. Len(c) - at : after[i] = c[at + i]
  <2>1. \A i \in at + 1 .. Len(c) : c[i] \in S
    BY <1>0
  <2>2. /\ after \in Seq(S)
        /\ Len(after) = IF at + 1 <= Len(c) THEN Len(c) - (at + 1) + 1 ELSE 0
        /\ \A i \in 1 .. Len(c) - (at + 1) + 1 : after[i] = c[at + 1 + i - 1]
    BY <1>0, <2>1, SubSeqProperties
  <2>. QED BY <1>0, <2>2
<1>3. /\ before \o after \in Seq(S)
      /\ Len(before \o after) = Len(before) + Len(after)
      /\ \A i \in 1 .. Len(before) + Len(after) : (before \o after)[i] =
           IF i <= Len(before) THEN before[i] ELSE after[i - Len(before)]
  BY <1>1, <1>2, ConcatProperties
<1> HIDE DEF before, after
<1>4. RemoveAt(c, at) = before \o after
  BY DEF RemoveAt, before, after
<1>5. ASSUME NEW i \in 1 .. Len(c) - 1
      PROVE  (before \o after)[i] = c[IF i < at THEN i ELSE i + 1]
  <2>1. CASE i < at
    BY <2>1, <1>0, <1>1, <1>2, <1>3
  <2>2. CASE ~(i < at)
    <3> DEFINE j == i - (at - 1)
    <3>1. /\ i \in Int /\ ~(i <= at - 1) /\ i \in 1 .. Len(before) + Len(after)
          /\ j \in 1 .. Len(c) - at /\ at + j = i + 1
      BY <2>2, <1>0, <1>1, <1>2
    <3>2. (before \o after)[i] = after[j]
      BY <3>1, <1>1, <1>3
    <3>3. after[j] = c[at + j]
      BY <3>1, <1>2
    <3>. QED BY <3>1, <3>2, <3>3, <2>2
  <2>. QED BY <2>1, <2>2
<1>6. Len(before) + Len(after) = Len(c) - 1
  BY <1>0, <1>1, <1>2
<1>. QED BY <1>3, <1>4, <1>5, <1>6

(* Setting a key leaves one entry for it, and every other entry as it was. *)
LEMMA SetLastKeepsEntries ==
  ASSUME NEW c, GoodEntries(c), NEW key, NEW value,
         Entry([key |-> key, value |-> value])
  PROVE  /\ GoodEntries(SetLast(c, key, value))
         /\ Len(SetLast(c, key, value)) <= Len(c) + 1
         /\ Places(c, key) # {} => Len(SetLast(c, key, value)) = Len(c)
<1> DEFINE new    == [key |-> key, value |-> value]
           others == IF Places(c, key) = {} THEN c
                     ELSE RemoveAt(c, CHOOSE at \in Places(c, key) : TRUE)
<1>1. PICK S : c \in Seq(S)
  BY DEF GoodEntries
<1>2. Len(c) \in Nat /\ DOMAIN c = 1 .. Len(c)
  BY <1>1, LenProperties
<1>3. /\ others \in Seq(S) /\ Len(others) \in Nat /\ DOMAIN others = 1 .. Len(others)
      /\ Len(others) <= Len(c)
      /\ Places(c, key) # {} => Len(others) = Len(c) - 1
      /\ \A i \in 1 .. Len(others) :
           /\ Entry(others[i]) /\ others[i].key # key
           /\ \A j \in 1 .. Len(others) : others[i].key = others[j].key => i = j
  <2>1. CASE Places(c, key) = {}
    <3>1. others = c
      BY <2>1
    <3>2. \A i \in 1 .. Len(c) : c[i].key # key
      BY <2>1, <1>2 DEF Places
    <3> HIDE DEF others
    <3>. QED BY <3>1, <3>2, <2>1, <1>1, <1>2 DEF GoodEntries, Keyless
  <2>2. CASE Places(c, key) # {}
    <3> DEFINE at == CHOOSE x \in Places(c, key) : TRUE
    <3>1. at \in 1 .. Len(c) /\ c[at].key = key
      BY <2>2, <1>2 DEF Places
    <3>2. others = RemoveAt(c, at)
      BY <2>2
    <3> HIDE DEF at, others
    <3>3. /\ others \in Seq(S) /\ Len(others) = Len(c) - 1
          /\ \A i \in 1 .. Len(c) - 1 : others[i] = c[IF i < at THEN i ELSE i + 1]
      BY <3>1, <3>2, <1>1, RemoveAtProperties
    <3>4. Len(others) \in Nat /\ DOMAIN others = 1 .. Len(others)
      BY <3>3, LenProperties
    <3>5. ASSUME NEW i \in 1 .. Len(others)
          PROVE  /\ Entry(others[i]) /\ others[i].key # key
                 /\ \A j \in 1 .. Len(others) : others[i].key = others[j].key => i = j
      <4> DEFINE from(n) == IF n < at THEN n ELSE n + 1
      <4>1. \A n \in 1 .. Len(others) :
              from(n) \in 1 .. Len(c) /\ from(n) # at /\ others[n] = c[from(n)]
        BY <3>1, <3>3, <1>2
      <4>2. \A n, m \in 1 .. Len(others) : from(n) = from(m) => n = m
        BY <3>1, <1>2
      <4> HIDE DEF from
      <4>. QED BY <4>1, <4>2, <3>1, <1>2 DEF GoodEntries, Keyless
    <3>. QED BY <3>3, <3>4, <3>5, <2>2, <1>2
  <2>. QED BY <2>1, <2>2
<1>4. SetLast(c, key, value) = Append(others, new)
  BY DEF SetLast
<1> DEFINE T == S \cup {new}
<1> HIDE DEF others
<1>5. others \in Seq(T)
  BY <1>3, SeqMonotonic
<1>6. new \in T
  OBVIOUS
<1>7. new.key = key /\ Entry(new)
  OBVIOUS
<1> HIDE DEF new, T
<1>8. /\ Append(others, new) \in Seq(T) /\ Len(Append(others, new)) = Len(others) + 1
      /\ DOMAIN Append(others, new) = 1 .. Len(others) + 1
      /\ \A i \in 1 .. Len(others) : Append(others, new)[i] = others[i]
      /\ Append(others, new)[Len(others) + 1] = new
  BY <1>5, <1>6, <1>3
<1>9. \A i \in 1 .. Len(others) + 1 : i \in 1 .. Len(others) \/ i = Len(others) + 1
  BY <1>3
<1>10. GoodEntries(Append(others, new))
  BY <1>3, <1>7, <1>8, <1>9 DEF GoodEntries, Keyless
<1>11. /\ Len(others) \in Nat /\ Len(others) <= Len(c)
       /\ Places(c, key) # {} => Len(others) = Len(c) - 1
  BY <1>3
<1>12. /\ Len(others) + 1 <= Len(c) + 1
       /\ Places(c, key) # {} => Len(others) + 1 = Len(c)
  <2>1. ASSUME NEW m \in Nat, NEW k \in Nat
        PROVE  (m <= k => m + 1 <= k + 1) /\ (m = k - 1 => m + 1 = k)
    OBVIOUS
  <2>. QED BY <2>1, <1>2, <1>11
<1>13. Len(Append(others, new)) \in Nat
  BY <1>8, <1>11
<1>. QED BY <1>4, <1>8, <1>10, <1>12, <1>13

(* The last entries of a cache are a cache. *)
LEMMA SuffixKeepsEntries ==
  ASSUME NEW c, GoodEntries(c), NEW n \in Nat, n <= Len(c)
  PROVE  /\ GoodEntries(SubSeq(c, Len(c) - n + 1, Len(c)))
         /\ Len(SubSeq(c, Len(c) - n + 1, Len(c))) = n
<1>1. PICK S : c \in Seq(S)
  BY DEF GoodEntries
<1>2. /\ Len(c) \in Nat /\ DOMAIN c = 1 .. Len(c)
      /\ \A i \in 1 .. Len(c) : c[i] \in S
  BY <1>1, LenProperties, ElementOfSeq
<1> DEFINE d == SubSeq(c, Len(c) - n + 1, Len(c))
<1>3. \A i \in Len(c) - n + 1 .. Len(c) : c[i] \in S
  BY <1>2
<1>4. /\ d \in Seq(S)
      /\ Len(d) = IF Len(c) - n + 1 <= Len(c) THEN Len(c) - (Len(c) - n + 1) + 1 ELSE 0
      /\ \A i \in 1 .. Len(c) - (Len(c) - n + 1) + 1 : d[i] = c[Len(c) - n + 1 + i - 1]
  BY <1>2, <1>3, SubSeqProperties
<1> HIDE DEF d
<1>5. Len(d) = n /\ \A i \in 1 .. n : d[i] = c[Len(c) - n + i] /\ Len(c) - n + i \in 1 .. Len(c)
  BY <1>2, <1>4
<1>6. DOMAIN d = 1 .. n
  BY <1>4, <1>5, LenProperties
<1>7. \A i, j \in 1 .. n : Len(c) - n + i = Len(c) - n + j => i = j
  BY <1>2
<1>8. \A i \in 1 .. n : Entry(d[i])
  BY <1>2, <1>5 DEF GoodEntries
<1>9. ASSUME NEW i \in 1 .. n, NEW j \in 1 .. n, d[i].key = d[j].key
      PROVE  i = j
  <2>1. c[Len(c) - n + i].key = c[Len(c) - n + j].key
    BY <1>5, <1>9
  <2>2. Len(c) - n + i = Len(c) - n + j
    BY <2>1, <1>2, <1>5 DEF GoodEntries, Keyless
  <2>. QED BY <2>2, <1>7
<1>10. GoodEntries(d)
  BY <1>4, <1>6, <1>8, <1>9 DEF GoodEntries, Keyless
<1>. QED BY <1>5, <1>10 DEF d

(* Inserting a snapshot under its own key keeps the cache right, and cuts it. *)
LEMMA InsertKeepsCache ==
  ASSUME CacheOK, NEW key, NEW value, Entry([key |-> key, value |-> value]),
         cache' = Insert(key, value)
  PROVE  CacheOK'
<1> DEFINE grown == SetLast(cache, key, value)
<1>1. GoodEntries(grown)
  BY SetLastKeepsEntries DEF CacheOK
<1>2. PICK S : grown \in Seq(S)
  BY <1>1 DEF GoodEntries
<1>3. Len(grown) \in Nat
  BY <1>2, LenProperties
<1>4. cache' = IF Len(grown) <= MaxEntries THEN grown
               ELSE SubSeq(grown, Len(grown) - MaxEntries + 1, Len(grown))
  BY DEF Insert
<1> HIDE DEF grown
<1>5. MaxEntries \in Nat
  BY CacheAssumption
<1>6. CASE Len(grown) <= MaxEntries
  BY <1>1, <1>4, <1>6 DEF CacheOK
<1>7. CASE ~(Len(grown) <= MaxEntries)
  BY <1>1, <1>3, <1>4, <1>5, <1>7, SuffixKeepsEntries DEF CacheOK
<1>. QED BY <1>6, <1>7

-----------------------------------------------------------------------------
(* Requests                                                                *)

(* A request may change to any good one as long as those that wait for its *)
(* task still find it, and what is registered stays so.                    *)
LEMMA StepKeepsRequests ==
  ASSUME RequestsOK, NEW r \in Requests, NEW q, Step(r, q),
         IsRequest(q), GoodRequest(q, req),
         req[r].task # "none" =>
           q.task # "none" /\ q.league = req[r].league /\ q.set = req[r].set
  PROVE  /\ RequestsOK'
         /\ req'[r] = q
         /\ \A s \in Requests \ {r} : req'[s] = req[s]
<1>1. /\ req' = [s \in Requests |-> req'[s]] /\ req'[r] = q
      /\ \A s \in Requests \ {r} : req'[s] = req[s]
  BY DEF RequestsOK, Step
<1>2. ASSUME NEW s \in Requests
      PROVE  IsRequest(req'[s]) /\ GoodRequest(req'[s], req)
  BY <1>1 DEF RequestsOK
<1>3. ASSUME NEW s \in Requests
      PROVE  GoodRequest(req'[s], req')
  <2>1. ASSUME req'[s].pc = "joined"
        PROVE  /\ req'[s].on \in Requests /\ req'[req'[s].on].task # "none"
               /\ req'[req'[s].on].league = req'[s].league
               /\ req'[req'[s].on].set = req'[s].set
    <3> DEFINE o == req'[s].on
    <3>1. /\ o \in Requests /\ req[o].task # "none"
          /\ req[o].league = req'[s].league /\ req[o].set = req'[s].set
      BY <2>1, <1>2 DEF GoodRequest
    <3>2. CASE o = r
      BY <3>1, <3>2, <1>1
    <3>3. CASE o # r
      BY <3>1, <3>3, <1>1
    <3>. QED BY <3>1, <3>2, <3>3
  <2>. QED BY <2>1, <1>2 DEF GoodRequest
<1>. QED BY <1>1, <1>2, <1>3 DEF RequestsOK

(* The registered tasks stay so if their requests go on computing. *)
LEMMA StepKeepsTasks ==
  ASSUME TasksOK, NEW r \in Requests, NEW q,
         req'[r] = q, \A s \in Requests \ {r} : req'[s] = req[s],
         req[r].pc = "computing" => q.pc = "computing" /\ q.key = req[r].key,
         UNCHANGED memory
  PROVE  TasksOK'
BY DEF TasksOK, memory

(* What waits, computes or is answered is untouched by the rest.           *)
LEMMA EnvironmentKeepsIInv ==
  ASSUME IInv, UNCHANGED <<req, memory>>
  PROVE  IInv'
BY DEF IInv, RequestsOK, CacheOK, TasksOK, memory

(* A step of a request that leaves the cache and the tasks as they are.    *)
LEMMA QuietStepKeepsIInv ==
  ASSUME IInv, NEW r \in Requests, NEW q, Step(r, q), UNCHANGED memory,
         IsRequest(q), GoodRequest(q, req),
         req[r].task # "none" =>
           q.task # "none" /\ q.league = req[r].league /\ q.set = req[r].set,
         req[r].pc = "computing" => q.pc = "computing" /\ q.key = req[r].key
  PROVE  IInv'
<1>1. /\ RequestsOK' /\ req'[r] = q
      /\ \A s \in Requests \ {r} : req'[s] = req[s]
  BY StepKeepsRequests DEF IInv
<1>2. TasksOK'
  BY <1>1, StepKeepsTasks DEF IInv
<1>3. CacheOK'
  BY DEF IInv, CacheOK, memory
<1>. QED BY <1>1, <1>2, <1>3 DEF IInv

(* A request that computes nothing, or whose task has failed, may fail. *)
LEMMA FailureIsGood ==
  ASSUME RequestsOK, NEW r \in Requests, req[r].task \in {"none", "failed"}
  PROVE  /\ IsRequest([req[r] EXCEPT !.pc = "failed"])
         /\ GoodRequest([req[r] EXCEPT !.pc = "failed"], req)
BY DEF RequestsOK, IsRequest, Fields, GoodRequest, Answers

-----------------------------------------------------------------------------
(* The steps of a request                                                  *)

(* The league's row is read, or there is none. *)
LEMMA ReadLeagueKeepsIInv ==
  ASSUME IInv, NEW r \in Requests, ReadLeague(r)
  PROVE  IInv'
<1>1. /\ req[r].pc = "idle" /\ req[r].task = "none" /\ UNCHANGED memory
  BY DEF ReadLeague, IInv, RequestsOK, IsRequest, GoodRequest
<1>2. CASE Fail(r)
  BY <1>1, <1>2, FailureIsGood, QuietStepKeepsIInv DEF Fail, IInv
<1>3. CASE Step(r, [Idle EXCEPT !.pc = "context",
                      !.league = [NoLeague EXCEPT !.teams = league.teams]])
  <2> DEFINE l == [NoLeague EXCEPT !.teams = league.teams]
             q == [Idle EXCEPT !.pc = "context", !.league = l]
  <2>2. IsLeague(l)
    BY DEF IsLeague, NoLeague
  <2>1. IsRequest(q) /\ GoodRequest(q, req)
    <3> HIDE DEF l
    <3>2. q = [Idle EXCEPT !.pc = "context", !.league = l]
      OBVIOUS
    <3> HIDE DEF q
    <3>1. /\ q = Fields(q) /\ q.pc = "context" /\ q.task = "none" /\ q.league = l
      BY <3>2 DEF Fields, Idle
    <3>. QED BY <3>1, <2>2 DEF IsRequest, GoodRequest
  <2> HIDE DEF q
  <2>. QED BY <1>1, <1>3, <2>1, QuietStepKeepsIInv DEF q
<1>. QED BY <1>2, <1>3 DEF ReadLeague

(* The rest of the context is read, or the request fails. *)
LEMMA ReadContextKeepsIInv ==
  ASSUME IInv, NEW r \in Requests, NEW op, NEW ask, ReadContext(r, op, ask)
  PROVE  IInv'
<1>1. /\ req[r].pc = "context" /\ req[r].task = "none" /\ UNCHANGED memory
      /\ IsRequest(req[r])
  BY DEF ReadContext, IInv, RequestsOK, IsRequest, GoodRequest
<1>2. CASE Fail(r)
  BY <1>1, <1>2, FailureIsGood, QuietStepKeepsIInv DEF Fail, IInv
<1>3. CASE ~Fail(r)
  <2> DEFINE l == [req[r].league EXCEPT !.rules = league.rules, !.slots = league.slots]
             q == [req[r] EXCEPT
                     !.pc = "key", !.set = Resolved(op, ask),
                     !.league = l]
  <2>1. Step(r, q)
    BY <1>3 DEF ReadContext
  <2>3. l = [[teams |-> req[r].league.teams, rules |-> req[r].league.rules,
              slots |-> req[r].league.slots]
              EXCEPT !.rules = league.rules, !.slots = league.slots]
    BY <1>1, Zenon DEF IsRequest, IsLeague
  <2> HIDE DEF l
  <2>4. IsLeague(l)
    BY <2>3 DEF IsLeague
  <2>5. q = [Fields(req[r]) EXCEPT
               !.pc = "key", !.set = Resolved(op, ask), !.league = l]
    BY <1>1, Zenon DEF IsRequest
  <2> HIDE DEF q
  <2>0. /\ q = Fields(q)
        /\ q.pc = "key" /\ q.league = l
        /\ q.set = Resolved(op, ask) /\ q.key = req[r].key
        /\ q.seen = req[r].seen /\ q.task = req[r].task
        /\ q.on = req[r].on /\ q.reply = req[r].reply
    BY <2>5 DEF Fields
  <2>2. IsRequest(q) /\ GoodRequest(q, req)
    BY <2>0, <2>4, <1>1 DEF IsRequest, GoodRequest
  <2>. QED BY <1>1, <2>1, <2>2, QuietStepKeepsIInv
<1>. QED BY <1>2, <1>3

(* The task gets its snapshot from what its request has read. *)
LEMMA ComputeKeepsIInv ==
  ASSUME IInv, NEW r \in Requests, Compute(r)
  PROVE  IInv'
<1>1. /\ req[r].task = "running" /\ req[r].pc = "computing" /\ UNCHANGED memory
      /\ IsRequest(req[r]) /\ GoodRequest(req[r], req)
  BY DEF Compute, IInv, RequestsOK, GoodRequest
<1>2. CASE Step(r, [req[r] EXCEPT !.task = "failed"])
  <2> DEFINE q == [req[r] EXCEPT !.task = "failed"]
  <2>1. /\ IsRequest(q) /\ GoodRequest(q, req) /\ q.task # "none"
        /\ q.league = req[r].league /\ q.set = req[r].set
        /\ q.pc = "computing" /\ q.key = req[r].key
    BY <1>1 DEF IsRequest, Fields, GoodRequest
  <2> HIDE DEF q
  <2>. QED BY <1>1, <1>2, <2>1, QuietStepKeepsIInv DEF q
<1>3. CASE Step(r, [req[r] EXCEPT !.task = "ready",
                      !.reply = [league |-> req[r].league, set |-> req[r].set,
                                 eligibility |-> Eligibility]])
  <2> DEFINE q == [req[r] EXCEPT !.task = "ready",
                     !.reply = [league |-> req[r].league, set |-> req[r].set,
                                eligibility |-> Eligibility]]
  <2>3. Step(r, q)
    BY <1>3
  <2>4. q = [Fields(req[r]) EXCEPT !.task = "ready",
               !.reply = [league |-> req[r].league, set |-> req[r].set,
                          eligibility |-> Eligibility]]
    BY <1>1, Zenon DEF IsRequest
  <2> HIDE DEF q
  <2>0. /\ q = Fields(q)
        /\ q.pc = req[r].pc /\ q.league = req[r].league
        /\ q.set = req[r].set /\ q.key = req[r].key
        /\ q.seen = req[r].seen /\ q.task = "ready"
        /\ q.on = req[r].on /\ q.reply.league = req[r].league
        /\ q.reply.set = req[r].set
    BY <2>4 DEF Fields
  <2>1. /\ IsRequest(q) /\ GoodRequest(q, req) /\ q.task # "none"
        /\ q.league = req[r].league /\ q.set = req[r].set
        /\ q.pc = "computing" /\ q.key = req[r].key
    BY <2>0, <1>1 DEF IsRequest, GoodRequest, Answers
  <2>. QED BY <1>1, <2>3, <2>1, QuietStepKeepsIInv
<1>. QED BY <1>2, <1>3 DEF Compute

(* A waiting request shares the answer to the same question. *)
LEMMA JoinEndsKeepsIInv ==
  ASSUME IInv, NEW r \in Requests, JoinEnds(r)
  PROVE  IInv'
<1> DEFINE s == req[r].on
<1>1. /\ req[r].pc = "joined" /\ req[r].task = "none" /\ UNCHANGED memory
      /\ IsRequest(req[r]) /\ s \in Requests
      /\ req[s].league = req[r].league /\ req[s].set = req[r].set
      /\ req[s].task = "ready" => Answers(req[s].reply, req[s])
  BY DEF JoinEnds, IInv, RequestsOK, IsRequest, GoodRequest
<1>2. CASE Fail(r)
  BY <1>1, <1>2, FailureIsGood, QuietStepKeepsIInv DEF Fail, IInv
<1>3. CASE ~Fail(r)
  <2> DEFINE q == [req[r] EXCEPT !.pc = "done", !.reply = req[s].reply, !.key = None]
  <2>1. req[s].task = "ready" /\ Step(r, q)
    BY <1>3 DEF JoinEnds
  <2>3. q = [Fields(req[r]) EXCEPT
               !.pc = "done", !.reply = req[s].reply, !.key = None]
    BY <1>1, Zenon DEF IsRequest
  <2> HIDE DEF q
  <2>0. /\ q = Fields(q)
        /\ q.pc = "done" /\ q.league = req[r].league
        /\ q.set = req[r].set /\ q.key = None
        /\ q.seen = req[r].seen /\ q.task = req[r].task
        /\ q.on = req[r].on /\ q.reply = req[s].reply
    BY <2>3 DEF Fields
  <2>2. IsRequest(q) /\ GoodRequest(q, req)
    BY <2>0, <1>1, <2>1 DEF IsRequest, GoodRequest, Answers
  <2>. QED BY <1>1, <2>1, <2>2, QuietStepKeepsIInv
<1>. QED BY <1>2, <1>3

(* The task's request caches the snapshot and takes only its own task away. *)
LEMMA FinishKeepsIInv ==
  ASSUME IInv, NEW r \in Requests, Finish(r)
  PROVE  IInv'
<1>1. /\ req[r].pc = "computing" /\ IsRequest(req[r]) /\ GoodRequest(req[r], req)
      /\ inFlight' = Deregister(r) /\ latest' = latest
  BY DEF Finish, IInv, RequestsOK
<1>2. PICK q : /\ Step(r, q) /\ IsRequest(q) /\ GoodRequest(q, req) /\ q.task # "none"
               /\ q.league = req[r].league /\ q.set = req[r].set
  <2>1. CASE req[r].task = "ready"
    <3> DEFINE p == [req[r] EXCEPT !.pc = "done", !.key = None]
    <3>1. Step(r, p)
      BY <2>1 DEF Finish
    <3>3. p = [Fields(req[r]) EXCEPT !.pc = "done", !.key = None]
      BY <1>1, Zenon DEF IsRequest
    <3> HIDE DEF p
    <3>0. /\ p = Fields(p)
          /\ p.pc = "done" /\ p.league = req[r].league
          /\ p.set = req[r].set /\ p.key = None
          /\ p.seen = req[r].seen /\ p.task = req[r].task
          /\ p.on = req[r].on /\ p.reply = req[r].reply
      BY <3>3 DEF Fields
    <3>2. /\ IsRequest(p) /\ GoodRequest(p, req) /\ p.task # "none"
          /\ p.league = req[r].league /\ p.set = req[r].set
      BY <3>0, <1>1, <2>1 DEF IsRequest, GoodRequest, Answers
    <3>. QED BY <3>1, <3>2
  <2>2. CASE req[r].task = "failed"
    <3> DEFINE p == [req[r] EXCEPT !.pc = "failed"]
    <3>1. Step(r, p)
      BY <2>2 DEF Finish, Fail
    <3>2. /\ IsRequest(p) /\ GoodRequest(p, req) /\ p.task # "none"
          /\ p.league = req[r].league /\ p.set = req[r].set
      BY <1>1, <2>2 DEF IsRequest, Fields, GoodRequest, Answers
    <3> HIDE DEF p
    <3>. QED BY <3>1, <3>2
  <2>. QED BY <2>1, <2>2 DEF Finish
<1>3. /\ RequestsOK'
      /\ \A s \in Requests \ {r} : req'[s] = req[s]
  BY <1>2, StepKeepsRequests DEF IInv
<1>4. TasksOK'
  <2>1. \A k \in DOMAIN inFlight' :
          k \in DOMAIN inFlight /\ inFlight[k] # r /\ inFlight'[k] = inFlight[k]
    BY <1>1 DEF Deregister
  <2>2. inFlight' = [k \in DOMAIN inFlight' |-> inFlight'[k]]
    BY <1>1 DEF Deregister
  <2>. QED BY <1>1, <1>3, <2>1, <2>2 DEF IInv, TasksOK
<1>5. CacheOK'
  <2>1. CASE req[r].task = "ready"
    <3>1. Entry([key |-> req[r].key, value |-> req[r].reply])
      BY <1>1, <2>1 DEF IsRequest, GoodRequest, Belongs, Answers, Entry
    <3>2. cache' = Insert(req[r].key, req[r].reply)
      BY <2>1 DEF Finish
    <3>. QED BY <3>1, <3>2, InsertKeepsCache DEF IInv
  <2>2. CASE req[r].task # "ready"
    BY <2>2 DEF Finish, IInv, CacheOK
  <2>. QED BY <2>1, <2>2
<1>. QED BY <1>3, <1>4, <1>5 DEF IInv

(* Whoever finds a snapshot or a task under its own key finds one of the   *)
(* league and set it has read.                                             *)
LEMMA LookupKeepsIInv ==
  ASSUME IInv, NEW r \in Requests, Lookup(r)
  PROVE  IInv'
<1> DEFINE key  == Key(r, rows)
           kept == ClearStale(key)
           hits == Places(kept.cache, key)
           old  == Keyed(r, key)
<1>1. /\ req[r].pc = "key" /\ req[r].task = "none" /\ latest' = key.league
      /\ IsRequest(req[r])
  BY DEF Lookup, IInv, RequestsOK, IsRequest, GoodRequest
<1>2. key.league = Fingerprint(req[r].league) /\ key.set = req[r].set
  BY DEF Key
<1>3. /\ GoodEntries(kept.cache) /\ Len(kept.cache) <= MaxEntries
      /\ kept.inFlight = [k \in DOMAIN kept.inFlight |-> kept.inFlight[k]]
      /\ \A k \in DOMAIN kept.inFlight :
           /\ k \in DOMAIN inFlight /\ kept.inFlight[k] = inFlight[k]
           /\ k.league = key.league
  <2>1. CASE latest = key.league
    BY <2>1 DEF ClearStale, IInv, CacheOK, TasksOK
  <2>2. CASE latest # key.league
    <3>1. kept.cache = <<>> /\ kept.inFlight = NoTasks
      BY <2>2 DEF ClearStale
    <3>2. GoodEntries(<<>>) /\ Len(<<>>) <= MaxEntries
      BY CacheAssumption DEF GoodEntries, Keyless
    <3>. QED BY <3>1, <3>2 DEF NoTasks
  <2>. QED BY <2>1, <2>2
<1>4. old = [Fields(req[r]) EXCEPT !.key = key, !.seen = Eligibility]
  BY <1>1, Zenon DEF IsRequest, Keyed
<1> HIDE DEF key, kept, old
<1>5. /\ old = Fields(old) /\ old.pc = "key" /\ old.task = "none" /\ old.key = key
      /\ old.league = req[r].league /\ old.set = req[r].set
  BY <1>1, <1>4 DEF Fields
<1>6. \A k \in DOMAIN kept.inFlight :
        /\ kept.inFlight[k] \in Requests \ {r}
        /\ req[kept.inFlight[k]].pc = "computing" /\ req[kept.inFlight[k]].key = k
  BY <1>1, <1>3 DEF IInv, TasksOK
<1>7. ASSUME NEW at \in hits,
             Step(r, [old EXCEPT !.pc = "done", !.reply = kept.cache[at].value, !.key = None]),
             cache' = SetLast(kept.cache, key, kept.cache[at].value),
             inFlight' = kept.inFlight
      PROVE  IInv'
  <2> DEFINE value == kept.cache[at].value
             q == [old EXCEPT !.pc = "done", !.reply = value, !.key = None]
  <2>1. at \in DOMAIN kept.cache /\ kept.cache[at].key = key
    BY <1>7 DEF Places
  <2>2. /\ key.league = Fingerprint(value.league) /\ key.set = value.set
        /\ IsLeague(value.league)
    BY <2>1, <1>3 DEF GoodEntries, Entry
  <2>3. value.league = req[r].league /\ value.set = req[r].set
    BY <2>2, <1>1, <1>2, FingerprintIsExact DEF IsRequest
  <2>4. Entry([key |-> key, value |-> value])
    BY <2>2 DEF Entry
  <2>5. CacheOK'
    <3>1. Places(kept.cache, key) # {}
      BY <1>7
    <3> HIDE DEF value
    <3>2. /\ GoodEntries(SetLast(kept.cache, key, value))
          /\ Len(SetLast(kept.cache, key, value)) = Len(kept.cache)
      BY <3>1, <2>4, <1>3, SetLastKeepsEntries
    <3>3. cache' = SetLast(kept.cache, key, value)
      BY <1>7 DEF value
    <3>. QED BY <3>2, <3>3, <1>3 DEF CacheOK
  <2>6. q = [Fields(old) EXCEPT !.pc = "done", !.reply = value, !.key = None]
    BY <1>5, Zenon
  <2>7. Step(r, q)
    BY <1>7
  <2> HIDE DEF value, q
  <2>8. /\ q = Fields(q) /\ q.pc = "done" /\ q.task = "none" /\ q.reply = value
        /\ q.league = req[r].league /\ q.set = req[r].set
    BY <2>6, <1>5 DEF Fields
  <2>9. IsRequest(q) /\ GoodRequest(q, req)
    BY <2>3, <2>8, <1>1 DEF IsRequest, GoodRequest, Answers
  <2>10. /\ RequestsOK'
         /\ \A s \in Requests \ {r} : req'[s] = req[s]
    BY <2>7, <2>9, <1>1, StepKeepsRequests DEF IInv
  <2>11. TasksOK'
    BY <2>10, <1>1, <1>3, <1>6, <1>7 DEF TasksOK
  <2>. QED BY <2>5, <2>10, <2>11 DEF IInv
<1>8. ASSUME key \in DOMAIN kept.inFlight,
             Step(r, [old EXCEPT !.pc = "joined", !.on = kept.inFlight[key]]),
             cache' = kept.cache, inFlight' = kept.inFlight
      PROVE  IInv'
  <2> DEFINE s == kept.inFlight[key]
             q == [old EXCEPT !.pc = "joined", !.on = s]
  <2>1. s \in Requests /\ req[s].pc = "computing" /\ req[s].key = key
    BY <1>6, <1>8
  <2>2. IsRequest(req[s]) /\ GoodRequest(req[s], req)
    BY <2>1 DEF IInv, RequestsOK
  <2>3. /\ req[s].task # "none" /\ req[s].set = req[r].set
        /\ Fingerprint(req[s].league) = Fingerprint(req[r].league)
    BY <2>1, <2>2, <1>2 DEF GoodRequest, Belongs
  <2>4. req[s].league = req[r].league
    BY <2>2, <2>3, <1>1, FingerprintIsExact DEF IsRequest
  <2>5. q = [Fields(old) EXCEPT !.pc = "joined", !.on = s]
    BY <1>5, Zenon
  <2>6. Step(r, q)
    BY <1>8
  <2> HIDE DEF s, q
  <2>7. /\ q = Fields(q) /\ q.pc = "joined" /\ q.task = "none" /\ q.on = s
        /\ q.league = req[r].league /\ q.set = req[r].set
    BY <2>5, <1>5 DEF Fields
  <2>8. IsRequest(q) /\ GoodRequest(q, req)
    BY <2>1, <2>3, <2>4, <2>7, <1>1 DEF IsRequest, GoodRequest
  <2>9. /\ RequestsOK'
        /\ \A o \in Requests \ {r} : req'[o] = req[o]
    BY <2>6, <2>8, <1>1, StepKeepsRequests DEF IInv
  <2>10. TasksOK'
    BY <2>9, <1>1, <1>3, <1>6, <1>8 DEF TasksOK
  <2>11. CacheOK'
    BY <1>3, <1>8 DEF CacheOK
  <2>. QED BY <2>9, <2>10, <2>11 DEF IInv
<1>9. ASSUME Step(r, [old EXCEPT !.pc = "computing", !.task = "running"]),
             cache' = kept.cache,
             inFlight' = [k \in DOMAIN kept.inFlight \cup {key} |->
                            IF k = key THEN r ELSE kept.inFlight[k]]
      PROVE  IInv'
  <2> DEFINE q == [old EXCEPT !.pc = "computing", !.task = "running"]
  <2>1. q = [Fields(old) EXCEPT !.pc = "computing", !.task = "running"]
    BY <1>5, Zenon
  <2>2. Step(r, q)
    BY <1>9
  <2> HIDE DEF q
  <2>3. /\ q = Fields(q) /\ q.pc = "computing" /\ q.task = "running" /\ q.key = key
        /\ q.league = req[r].league /\ q.set = req[r].set
    BY <2>1, <1>5 DEF Fields
  <2>4. IsRequest(q) /\ GoodRequest(q, req)
    BY <2>3, <1>1, <1>2 DEF IsRequest, GoodRequest, Belongs
  <2>5. /\ RequestsOK' /\ req'[r] = q
        /\ \A s \in Requests \ {r} : req'[s] = req[s]
    BY <2>2, <2>4, <1>1, StepKeepsRequests DEF IInv
  <2>6. TasksOK'
    <3>1. inFlight' = [k \in DOMAIN inFlight' |-> inFlight'[k]]
      BY <1>9
    <3>2. ASSUME NEW k \in DOMAIN inFlight'
          PROVE  /\ inFlight'[k] \in Requests
                 /\ req'[inFlight'[k]].pc = "computing" /\ req'[inFlight'[k]].key = k
                 /\ k.league = latest'
      <4>1. CASE k = key
        BY <4>1, <1>1, <1>9, <2>3, <2>5
      <4>2. CASE k # key
        BY <4>2, <1>1, <1>3, <1>6, <1>9, <2>5
      <4>. QED BY <4>1, <4>2
    <3>. QED BY <3>1, <3>2 DEF TasksOK
  <2>7. CacheOK'
    BY <1>3, <1>9 DEF CacheOK
  <2>. QED BY <2>5, <2>6, <2>7 DEF IInv
<1>. QED BY <1>7, <1>8, <1>9 DEF Lookup, key, kept, old

-----------------------------------------------------------------------------
(* The invariant                                                           *)

(* There is nothing to be wrong at the start. *)
LEMMA InitEstablishesIInv ==
  Init => IInv
<1> SUFFICES ASSUME Init PROVE IInv
  OBVIOUS
<1>1. IsRequest(Idle) /\ GoodRequest(Idle, req)
  BY DEF Idle, NoLeague, IsRequest, Fields, IsLeague, GoodRequest
<1>2. RequestsOK
  BY <1>1 DEF Init, RequestsOK
<1>3. CacheOK
  BY CacheAssumption DEF Init, CacheOK, GoodEntries, Keyless
<1>4. TasksOK
  BY DEF Init, TasksOK, NoTasks
<1>. QED BY <1>2, <1>3, <1>4 DEF IInv

(* One case per disjunct of Next. *)
LEMMA NextKeepsIInv ==
  IInv /\ [Next]_vars => IInv'
<1> SUFFICES ASSUME IInv, [Next]_vars PROVE IInv'
  OBVIOUS
<1>1. ASSUME NEW r \in Requests, ReadLeague(r) PROVE IInv'
  BY <1>1, ReadLeagueKeepsIInv
<1>2. ASSUME NEW r \in Requests, NEW op, NEW ask, ReadContext(r, op, ask) PROVE IInv'
  BY <1>2, ReadContextKeepsIInv
<1>3. ASSUME NEW r \in Requests, Lookup(r) PROVE IInv'
  BY <1>3, LookupKeepsIInv
<1>4. ASSUME NEW r \in Requests, Compute(r) PROVE IInv'
  BY <1>4, ComputeKeepsIInv
<1>5. ASSUME NEW r \in Requests, Finish(r) PROVE IInv'
  BY <1>5, FinishKeepsIInv
<1>6. ASSUME NEW r \in Requests, JoinEnds(r) PROVE IInv'
  BY <1>6, JoinEndsKeepsIInv
<1>7. CASE SaveLeague
  BY <1>7, EnvironmentKeepsIInv DEF SaveLeague
<1>8. CASE ChangeDraft
  BY <1>8, EnvironmentKeepsIInv DEF ChangeDraft
<1>9. ASSUME NEW i \in Importers, NEW p \in Players, BeginImport(i, p) PROVE IInv'
  BY <1>9, EnvironmentKeepsIInv DEF BeginImport
<1>10. ASSUME NEW i \in Importers, NEW positions, CommitImport(i, positions) PROVE IInv'
  BY <1>10, EnvironmentKeepsIInv DEF CommitImport
<1>11. CASE UNCHANGED vars
  BY <1>11, EnvironmentKeepsIInv DEF vars, memory
<1>. QED BY <1>1, <1>2, <1>3, <1>4, <1>5, <1>6, <1>7, <1>8, <1>9, <1>10, <1>11 DEF Next

(* IInv always holds. *)
LEMMA Invariance ==
  Spec => []IInv
BY InitEstablishesIInv, NextKeepsIInv, PTL DEF Spec

(* Every answer is for the league and the projection set that the request  *)
(* itself has read: the cache, shared computations, the displacement of    *)
(* old settings and eviction never mix requests up.                        *)
THEOREM AnswersMatch ==
  Spec => []RepliesMatchRequest
<1>1. IInv => RepliesMatchRequest
  BY DEF IInv, RequestsOK, GoodRequest, Answers, RepliesMatchRequest
<1>. QED BY <1>1, Invariance, PTL

(* Only a running computation, for the current league and under its own    *)
(* key, can be joined; the cache holds a key once and keeps its bound.     *)
THEOREM TasksAreLive ==
  Spec => []InFlightIsLive
<1>1. IInv => InFlightIsLive
  BY DEF IInv, CacheOK, GoodEntries, Keyless, TasksOK, InFlightIsLive
<1>. QED BY <1>1, Invariance, PTL

-------------------------------------------------------------------------------
(***************************************************************************)
(* Why a count and a latest time are enough: as long as imports neither    *)
(* overlap nor commit during a computation, ValuationCache answers with    *)
(* the eligibility a request has found.                                    *)
(*                                                                         *)
(* The rows that are as old as a fingerprint can only have become fewer    *)
(* since it was taken, because every later import stamps its rows with a   *)
(* later time.  When the same fingerprint is found again, no row is newer, *)
(* and the count says that none is missing: the rows are the same.         *)
(***************************************************************************)

Pairs(R) == {<<e.player, e.position>> : e \in R}

\* A time that has gone by, before any open import began.
Past(t, I) ==
  /\ t \in Int
  /\ t <= 0 \/ \E j \in Importers : t <= I[j].at
  /\ \A i \in Importers : I[i].state = "open" => t < I[i].at

UpTo(t, R) == {e \in R : e.at <= t}

\* fp was once the fingerprint of rows S of eligibility E.
Known(fp, E, R, I) ==
  /\ Past(fp[2], I)
  /\ \E S : /\ IsFiniteSet(S) /\ E = Pairs(S) /\ fp = EligibilityFingerprint(S)
            /\ UpTo(fp[2], R) \subseteq S

ImportsOK ==
  imports \in [Importers -> [state : {"new", "open", "done"},
                             player : Players \cup {None}, at : Nat]]

Bounded(N) ==
  /\ \A i \in Importers : imports[i].at <= N
  /\ \A e \in rows : e.at \in 0 .. N

TimesOK == /\ ImportsOK
           /\ IsFiniteSet(rows)
           /\ \E N \in Nat : Bounded(N)

\* What holds unless an import met another one or a computation.
Alone == \A i, j \in Importers :
           imports[i].state = "open" /\ imports[j].state = "open" => i = j
RowsArePast == \A e \in rows : Past(e.at, imports)
CacheKnown == \E S : /\ cache \in Seq(S)
                     /\ \A e \in S : Known(e.key.eligibility, e.value.eligibility, rows, imports)

GoodSeen(q, all, R, I) ==
  /\ q.pc = "computing" => Known(q.key.eligibility, q.seen, R, I)
  /\ q.task = "running" => q.seen = Pairs(R)
  /\ q.task = "ready" \/ q.pc = "done" => q.reply.eligibility = q.seen
  /\ q.pc = "joined" => all[q.on].seen = q.seen
SeenOK == \A r \in Requests : GoodSeen(req[r], req, rows, imports)

Calm == Alone /\ RowsArePast /\ CacheKnown /\ SeenOK

FInv == TimesOK /\ (~raced => Calm)

-------------------------------------------------------------------------------
(* Fingerprints                                                             *)

\* A set of numbers that has a bound has a greatest element.
LEMMA MaxOfBounded ==
  ASSUME NEW S \in SUBSET Int, S # {}, NEW N \in Int, \A x \in S : x <= N
  PROVE  Max(S) \in S /\ \A x \in S : x <= Max(S)
<1> DEFINE T == {N - x : x \in S}
<1>1. T \subseteq Nat /\ T # {}
  <2>1. \A x \in S : N - x \in Nat
    BY SMT
  <2>2. QED
    BY <2>1
<1>2. PICK m \in T : \A y \in T : ~ (<<y, m>> \in OpToRel(<, Nat))
  BY <1>1, NatLessThanWellFounded, WFMin
<1>3. PICK x \in S : m = N - x
  BY <1>2
<1>4. \A y \in S : ~(N - y < N - x)
  <2>1. \A y, z \in Nat : y < z => <<y, z>> \in OpToRel(<, Nat)
    BY DEF OpToRel
  <2>2. \A y \in S : N - y \in T /\ N - y \in Nat /\ N - x \in Nat
    BY <1>1
  <2>3. QED
    BY <1>2, <1>3, <2>1, <2>2
<1>5. \A y \in S : x >= y
  BY <1>4, SMT
<1>6. Max(S) \in S /\ \A y \in S : Max(S) >= y
  BY <1>5 DEF Max
<1> DEFINE m2 == Max(S)
<1> HIDE DEF m2
<1>7. m2 \in S /\ \A y \in S : m2 >= y
  BY <1>6 DEF m2
<1>8. \A y \in S : y <= m2
  BY <1>7, SMT
<1>9. QED
  BY <1>7, <1>8 DEF m2

\* The latest time of the rows is that of one of them, or there is none.
LEMMA LatestTime ==
  ASSUME TimesOK
  PROVE  /\ EligibilityFingerprint(rows)[1] = Cardinality(rows)
         /\ EligibilityFingerprint(rows)[2] \in Int
         /\ \A e \in rows : e.at <= EligibilityFingerprint(rows)[2]
         /\ \/ EligibilityFingerprint(rows)[2] = -1
            \/ \E e \in rows : EligibilityFingerprint(rows)[2] = e.at
<1> DEFINE A == {e.at : e \in rows} \cup {-1}
<1>1. PICK N \in Nat : \A e \in rows : e.at \in 0 .. N
  BY DEF TimesOK, Bounded
<1>2. A \in SUBSET Int /\ A # {} /\ \A x \in A : x <= N
  <2>1. -1 \in Int /\ -1 <= N
    BY SMT
  <2>2. \A e \in rows : e.at \in Int /\ e.at <= N
    BY <1>1, SMT
  <2>3. QED
    BY <2>1, <2>2
<1>3. /\ EligibilityFingerprint(rows)[1] = Cardinality(rows)
      /\ EligibilityFingerprint(rows)[2] = Max(A)
  BY DEF EligibilityFingerprint
<1> DEFINE m == Max(A)
<1>4. \A e \in rows : e.at \in A
  OBVIOUS
<1>5. \A x \in A : x = -1 \/ \E e \in rows : x = e.at
  OBVIOUS
<1> HIDE DEF A
<1>6. m \in A /\ \A x \in A : x <= m
  BY <1>2, MaxOfBounded
<1> HIDE DEF m
<1>7. m \in Int
  BY <1>2, <1>6
<1>8. QED
  BY <1>3, <1>4, <1>5, <1>6, <1>7 DEF m

\* Whoever finds a known fingerprint finds the eligibility it was taken of.
LEMMA KnownIsCurrent ==
  ASSUME TimesOK, NEW E, Known(EligibilityFingerprint(rows), E, rows, imports)
  PROVE  E = Pairs(rows)
<1> DEFINE fp == EligibilityFingerprint(rows)
<1>1. PICK S : /\ IsFiniteSet(S) /\ E = Pairs(S) /\ fp = EligibilityFingerprint(S)
               /\ UpTo(fp[2], rows) \subseteq S
  BY DEF Known
<1>2. Cardinality(S) = Cardinality(rows)
  <2>1. fp[1] = Cardinality(S)
    <3>1. EligibilityFingerprint(S)[1] = Cardinality(S)
      BY DEF EligibilityFingerprint
    <3> HIDE DEF fp
    <3>2. QED
      BY <1>1, <3>1
  <2>2. QED
    BY <2>1, LatestTime
<1>3. rows \subseteq S
  <2>1. \A e \in rows : e.at <= fp[2]
    BY LatestTime
  <2> HIDE DEF fp
  <2>2. QED
    BY <1>1, <2>1 DEF UpTo
<1>4. rows = S
  BY <1>1, <1>2, <1>3, FS_Subset
<1>5. QED
  BY <1>1, <1>4

\* The fingerprint of the present rows is known.
LEMMA CurrentIsKnown ==
  ASSUME TimesOK, RowsArePast
  PROVE  Known(EligibilityFingerprint(rows), Pairs(rows), rows, imports)
<1> DEFINE t == EligibilityFingerprint(rows)[2]
<1>1. t = -1 \/ \E e \in rows : t = e.at
  BY LatestTime
<1>2. Past(-1, imports)
  <2>1. \A i \in Importers : imports[i].at \in Nat
    BY DEF TimesOK, ImportsOK
  <2>2. -1 \in Int /\ -1 <= 0 /\ \A n \in Nat : -1 < n
    BY SMT
  <2>3. QED
    BY <2>1, <2>2 DEF Past
<1>3. Past(t, imports)
  BY <1>1, <1>2 DEF RowsArePast
<1>4. UpTo(t, rows) \subseteq rows
  BY DEF UpTo
<1>5. QED
  BY <1>3, <1>4 DEF Known, TimesOK

-------------------------------------------------------------------------------
(* The steps of a request                                                   *)

\* A request may change to any good one as long as those that wait for its
\* task still find the eligibility they have seen.
LEMMA StepKeepsSeen ==
  ASSUME RequestsOK, SeenOK, NEW r \in Requests, NEW q, Step(r, q),
         GoodSeen(q, req, rows, imports),
         req[r].task # "none" => q.seen = req[r].seen,
         UNCHANGED <<rows, imports>>
  PROVE  SeenOK'
<1>1. /\ req'[r] = q
      /\ \A s \in Requests \ {r} : req'[s] = req[s]
  BY DEF RequestsOK, Step
<1>2. ASSUME NEW s \in Requests
      PROVE  GoodSeen(req'[s], req', rows, imports)
  <2>1. GoodSeen(req'[s], req, rows, imports)
    BY <1>1 DEF SeenOK
  <2>2. ASSUME req'[s].pc = "joined"
        PROVE  req'[req'[s].on].seen = req'[s].seen
    <3> DEFINE o == req'[s].on
    <3>1. req[o].seen = req'[s].seen
      BY <2>1, <2>2 DEF GoodSeen
    <3>2. CASE s = r
      <4>1. CASE o = r
        BY <3>2, <4>1, <1>1
      <4>2. CASE o # r /\ o \in Requests
        BY <3>1, <4>2, <1>1
      <4>3. CASE o \notin Requests
        <5>1. req'[o] = req[o]
          BY <4>3 DEF RequestsOK, Step
        <5>2. QED
          BY <3>1, <5>1
      <4>4. QED
        BY <4>1, <4>2, <4>3
    <3>3. CASE s # r
      <4>1. o \in Requests /\ req[o].task # "none"
        BY <2>2, <3>3, <1>1 DEF RequestsOK, GoodRequest
      <4>2. req'[o].seen = req[o].seen
        BY <4>1, <1>1
      <4>3. QED
        BY <3>1, <4>2
    <3>4. QED
      BY <3>2, <3>3
  <2>3. QED
    BY <2>1, <2>2 DEF GoodSeen
<1>3. QED
  BY <1>2 DEF SeenOK

\* A step of a request that leaves a cache of known entries.
LEMMA StepKeepsFInv ==
  ASSUME RequestsOK, FInv, NEW r \in Requests, NEW q, Step(r, q),
         UNCHANGED <<rows, imports, raced>>,
         ~raced => /\ GoodSeen(q, req, rows, imports)
                   /\ req[r].task # "none" => q.seen = req[r].seen
                   /\ CacheKnown'
  PROVE  FInv'
<1>1. TimesOK'
  BY DEF FInv, TimesOK, ImportsOK, Bounded
<1>2. ASSUME ~raced PROVE Calm'
  <2>1. SeenOK'
    BY <1>2, StepKeepsSeen DEF FInv, Calm
  <2>2. Alone' /\ RowsArePast' /\ CacheKnown'
    BY <1>2 DEF FInv, Calm, Alone, RowsArePast
  <2>3. QED
    BY <2>1, <2>2 DEF Calm
<1>3. QED
  BY <1>1, <1>2 DEF FInv

\* The entries of a cache in which a key has been set are the old ones and it.
LEMMA SetLastIn ==
  ASSUME NEW S, NEW c \in Seq(S), NEW key, NEW value, [key |-> key, value |-> value] \in S
  PROVE  SetLast(c, key, value) \in Seq(S)
<1> DEFINE others == IF Places(c, key) = {} THEN c
                     ELSE RemoveAt(c, CHOOSE at \in Places(c, key) : TRUE)
<1>1. others \in Seq(S)
  <2>1. ASSUME Places(c, key) # {}
        PROVE  RemoveAt(c, CHOOSE at \in Places(c, key) : TRUE) \in Seq(S)
    <3> DEFINE at == CHOOSE x \in Places(c, key) : TRUE
    <3>1. at \in 1 .. Len(c)
      BY <2>1, LenProperties DEF Places
    <3> HIDE DEF at
    <3>2. RemoveAt(c, at) \in Seq(S)
      BY <3>1, RemoveAtProperties
    <3>3. QED
      BY <3>2 DEF at
  <2>2. QED
    BY <2>1
<1> HIDE DEF others
<1>2. Append(others, [key |-> key, value |-> value]) \in Seq(S)
  BY <1>1, AppendProperties
<1>3. QED
  BY <1>2 DEF SetLast, others

\* Cutting the cache adds nothing.
LEMMA InsertIn ==
  ASSUME NEW S, cache \in Seq(S), NEW key, NEW value, [key |-> key, value |-> value] \in S
  PROVE  Insert(key, value) \in Seq(S)
<1> DEFINE grown == SetLast(cache, key, value)
<1>1. grown \in Seq(S)
  BY SetLastIn
<1>2. Insert(key, value) = IF Len(grown) <= MaxEntries THEN grown
                           ELSE SubSeq(grown, Len(grown) - MaxEntries + 1, Len(grown))
  BY DEF Insert
<1> HIDE DEF grown
<1>3. Len(grown) \in Nat /\ MaxEntries \in Nat /\ \A i \in 1 .. Len(grown) : grown[i] \in S
  BY <1>1, LenProperties, ElementOfSeq, CacheAssumption
<1>4. ASSUME ~(Len(grown) <= MaxEntries)
      PROVE  SubSeq(grown, Len(grown) - MaxEntries + 1, Len(grown)) \in Seq(S)
  <2>1. \A i \in Len(grown) - MaxEntries + 1 .. Len(grown) : grown[i] \in S
    BY <1>3, <1>4
  <2>2. Len(grown) - MaxEntries + 1 \in Int /\ Len(grown) \in Int
    BY <1>3
  <2>3. QED
    BY <2>1, <2>2, SubSeqProperties
<1>5. QED
  BY <1>1, <1>2, <1>4

\* The cache stays known when it is set to known entries.
LEMMA KnownCache ==
  ASSUME NEW S, \A e \in S : Known(e.key.eligibility, e.value.eligibility, rows, imports),
         cache' \in Seq(S), UNCHANGED <<rows, imports>>
  PROVE  CacheKnown'
BY DEF CacheKnown

\* A step that reads, fails, or ends another step without the cache.
LEMMA QuietStepKeepsFInv ==
  ASSUME IInv, FInv, NEW r \in Requests, NEW q, Step(r, q),
         UNCHANGED <<database, memory, raced>>,
         ~raced => /\ GoodSeen(q, req, rows, imports)
                   /\ req[r].task # "none" => q.seen = req[r].seen
  PROVE  FInv'
<1>1. UNCHANGED <<rows, imports, raced>> /\ cache' = cache
  BY DEF database, memory
<1>2. ~raced => CacheKnown'
  BY <1>1 DEF FInv, Calm, CacheKnown
<1>3. QED
  BY <1>1, <1>2, StepKeepsFInv DEF IInv

\* A failed request has no answer.
LEMMA FailureIsGoodSeen ==
  ASSUME RequestsOK, NEW r \in Requests, req[r].task \in {"none", "failed"}
  PROVE  /\ GoodSeen([req[r] EXCEPT !.pc = "failed"], req, rows, imports)
         /\ [req[r] EXCEPT !.pc = "failed"].seen = req[r].seen
BY DEF RequestsOK, IsRequest, Fields, GoodSeen

\* Reading the league and the context finds no eligibility yet.
LEMMA ReadKeepsFInv ==
  ASSUME IInv, FInv, NEW r \in Requests,
         ReadLeague(r) \/ \E op \in Ops, ask \in Asks : ReadContext(r, op, ask)
  PROVE  FInv'
<1>1. /\ req[r].task = "none" /\ UNCHANGED <<database, memory, raced>> /\ IsRequest(req[r])
  BY DEF ReadLeague, ReadContext, IInv, RequestsOK, IsRequest, GoodRequest
<1>2. CASE Fail(r)
  BY <1>1, <1>2, FailureIsGoodSeen, QuietStepKeepsFInv DEF Fail, IInv
<1>3. CASE ~Fail(r)
  <2>1. PICK q : Step(r, q) /\ q.task = "none" /\ q.pc \in {"context", "key"}
    <3>1. CASE ReadLeague(r)
      <4> DEFINE q == [Idle EXCEPT !.pc = "context",
                                   !.league = [NoLeague EXCEPT !.teams = league.teams]]
      <4>1. Step(r, q)
        BY <1>3, <3>1 DEF ReadLeague
      <4>2. q.task = "none" /\ q.pc = "context"
        BY DEF Idle
      <4>3. QED
        BY <4>1, <4>2
    <3>2. CASE \E op \in Ops, ask \in Asks : ReadContext(r, op, ask)
      <4>1. PICK op \in Ops, ask \in Asks : ReadContext(r, op, ask)
        BY <3>2
      <4> DEFINE l == [req[r].league EXCEPT !.rules = league.rules, !.slots = league.slots]
                 q == [req[r] EXCEPT !.pc = "key", !.set = Resolved(op, ask), !.league = l]
      <4>2. Step(r, q)
        BY <1>3, <4>1 DEF ReadContext
      <4>3. q = [Fields(req[r]) EXCEPT !.pc = "key", !.set = Resolved(op, ask), !.league = l]
        BY <1>1, Zenon DEF IsRequest
      <4> HIDE DEF q, l
      <4>4. q.task = "none" /\ q.pc = "key"
        BY <1>1, <4>3 DEF Fields
      <4>5. QED
        BY <4>2, <4>4
    <3>3. QED
      BY <3>1, <3>2
  <2>2. GoodSeen(q, req, rows, imports)
    BY <2>1 DEF GoodSeen
  <2>3. QED
    BY <1>1, <2>1, <2>2, QuietStepKeepsFInv
<1>4. QED
  BY <1>2, <1>3

\* The snapshot is of the eligibility seen, for no import has committed since.
LEMMA ComputeKeepsFInv ==
  ASSUME IInv, FInv, NEW r \in Requests, Compute(r)
  PROVE  FInv'
<1>1. /\ req[r].task = "running" /\ req[r].pc = "computing"
      /\ UNCHANGED <<database, memory, raced>> /\ IsRequest(req[r])
  BY DEF Compute, IInv, RequestsOK, GoodRequest
<1>2. PICK q : /\ Step(r, q) /\ q.pc = "computing" /\ q.key = req[r].key /\ q.seen = req[r].seen
               /\ q.task \in {"failed", "ready"}
               /\ q.task = "ready" => q.reply.eligibility = Eligibility
  <2>1. CASE Step(r, [req[r] EXCEPT !.task = "failed"])
    <3> DEFINE q == [req[r] EXCEPT !.task = "failed"]
    <3>1. q = [Fields(req[r]) EXCEPT !.task = "failed"]
      BY <1>1, Zenon DEF IsRequest
    <3>2. Step(r, q)
      BY <2>1
    <3> HIDE DEF q
    <3>3. q.pc = "computing" /\ q.key = req[r].key /\ q.seen = req[r].seen /\ q.task = "failed"
      BY <1>1, <3>1 DEF Fields
    <3>4. QED
      BY <3>2, <3>3
  <2>2. CASE Step(r, [req[r] EXCEPT !.task = "ready",
                        !.reply = [league |-> req[r].league, set |-> req[r].set,
                                   eligibility |-> Eligibility]])
    <3> DEFINE reply == [league |-> req[r].league, set |-> req[r].set,
                         eligibility |-> Eligibility]
               q == [req[r] EXCEPT !.task = "ready", !.reply = reply]
    <3>1. q = [Fields(req[r]) EXCEPT !.task = "ready", !.reply = reply]
      BY <1>1, Zenon DEF IsRequest
    <3>2. Step(r, q)
      BY <2>2
    <3>3. reply.eligibility = Eligibility
      OBVIOUS
    <3> HIDE DEF q, reply
    <3>4. /\ q.pc = "computing" /\ q.key = req[r].key /\ q.seen = req[r].seen
          /\ q.task = "ready" /\ q.reply = reply
      BY <1>1, <3>1 DEF Fields
    <3>5. QED
      BY <3>2, <3>3, <3>4
  <2>3. QED
    BY <2>1, <2>2 DEF Compute
<1>3. ASSUME ~raced PROVE GoodSeen(q, req, rows, imports)
  <2>1. GoodSeen(req[r], req, rows, imports)
    BY <1>3 DEF FInv, Calm, SeenOK
  <2>2. Eligibility = Pairs(rows)
    BY DEF Eligibility, Pairs
  <2>3. QED
    BY <1>1, <1>2, <2>1, <2>2 DEF GoodSeen
<1>4. QED
  BY <1>1, <1>2, <1>3, QuietStepKeepsFInv

\* A waiting request has seen what the request it waits for has.
LEMMA JoinEndsKeepsFInv ==
  ASSUME IInv, FInv, NEW r \in Requests, JoinEnds(r)
  PROVE  FInv'
<1> DEFINE s == req[r].on
<1>1. /\ req[r].pc = "joined" /\ req[r].task = "none" /\ UNCHANGED <<database, memory, raced>>
      /\ IsRequest(req[r]) /\ s \in Requests
  BY DEF JoinEnds, IInv, RequestsOK, IsRequest, GoodRequest
<1>2. CASE Fail(r)
  BY <1>1, <1>2, FailureIsGoodSeen, QuietStepKeepsFInv DEF Fail, IInv
<1>3. CASE ~Fail(r)
  <2> DEFINE q == [req[r] EXCEPT !.pc = "done", !.reply = req[s].reply, !.key = None]
  <2>1. req[s].task = "ready" /\ Step(r, q)
    BY <1>3 DEF JoinEnds
  <2>2. q = [Fields(req[r]) EXCEPT !.pc = "done", !.reply = req[s].reply, !.key = None]
    BY <1>1, Zenon DEF IsRequest
  <2> HIDE DEF q
  <2>3. /\ q.pc = "done" /\ q.seen = req[r].seen /\ q.task = "none" /\ q.reply = req[s].reply
    BY <1>1, <2>2 DEF Fields
  <2>4. ASSUME ~raced PROVE GoodSeen(q, req, rows, imports)
    <3>1. GoodSeen(req[r], req, rows, imports) /\ GoodSeen(req[s], req, rows, imports)
      BY <1>1, <2>4 DEF FInv, Calm, SeenOK
    <3>2. QED
      BY <1>1, <2>1, <2>3, <3>1 DEF GoodSeen
  <2>5. QED
    BY <1>1, <2>1, <2>3, <2>4, QuietStepKeepsFInv
<1>4. QED
  BY <1>2, <1>3

\* The snapshot is cached under the fingerprint of what was seen.
LEMMA FinishKeepsFInv ==
  ASSUME IInv, FInv, NEW r \in Requests, Finish(r)
  PROVE  FInv'
<1>1. /\ req[r].pc = "computing" /\ IsRequest(req[r]) /\ UNCHANGED <<rows, imports, raced>>
  BY DEF Finish, IInv, RequestsOK, database
<1>2. CASE req[r].task = "ready"
  <2> DEFINE q == [req[r] EXCEPT !.pc = "done", !.key = None]
  <2>1. Step(r, q) /\ cache' = Insert(req[r].key, req[r].reply)
    BY <1>2 DEF Finish
  <2>2. q = [Fields(req[r]) EXCEPT !.pc = "done", !.key = None]
    BY <1>1, Zenon DEF IsRequest
  <2> HIDE DEF q
  <2>3. q.pc = "done" /\ q.seen = req[r].seen /\ q.task = "ready" /\ q.reply = req[r].reply
    BY <1>2, <2>2 DEF Fields
  <2>4. ASSUME ~raced
        PROVE  GoodSeen(q, req, rows, imports) /\ CacheKnown'
    <3>1. GoodSeen(req[r], req, rows, imports)
      BY <2>4 DEF FInv, Calm, SeenOK
    <3>2. /\ Known(req[r].key.eligibility, req[r].seen, rows, imports)
          /\ req[r].reply.eligibility = req[r].seen
      BY <1>1, <1>2, <3>1 DEF GoodSeen
    <3>3. GoodSeen(q, req, rows, imports)
      BY <2>3, <3>2 DEF GoodSeen
    <3>4. PICK S : /\ cache \in Seq(S)
                   /\ \A e \in S : Known(e.key.eligibility, e.value.eligibility, rows, imports)
      BY <2>4 DEF FInv, Calm, CacheKnown
    <3> DEFINE new == [key |-> req[r].key, value |-> req[r].reply]
               T   == S \cup {new}
    <3>5. cache \in Seq(T)
      BY <3>4, SeqMonotonic
    <3>6. Insert(req[r].key, req[r].reply) \in Seq(T)
      BY <3>5, InsertIn
    <3>7. new.key = req[r].key /\ new.value = req[r].reply
      OBVIOUS
    <3> HIDE DEF new
    <3>8. \A e \in T : Known(e.key.eligibility, e.value.eligibility, rows, imports)
      BY <3>2, <3>4, <3>7
    <3> HIDE DEF T
    <3>9. CacheKnown'
      BY <1>1, <2>1, <3>6, <3>8, KnownCache
    <3>10. QED
      BY <3>3, <3>9
  <2>5. QED
    BY <1>1, <2>1, <2>3, <2>4, StepKeepsFInv DEF IInv
<1>3. CASE req[r].task = "failed"
  <2>1. Fail(r) /\ cache' = cache
    BY <1>3 DEF Finish
  <2>2. ~raced => CacheKnown'
    BY <1>1, <2>1 DEF FInv, Calm, CacheKnown
  <2>3. QED
    BY <1>1, <1>3, <2>1, <2>2, FailureIsGoodSeen, StepKeepsFInv DEF Fail, IInv
<1>4. QED
  BY <1>2, <1>3 DEF Finish

\* What is found under the key, cached or being computed, is of the present
\* eligibility.
LEMMA LookupKeepsFInv ==
  ASSUME IInv, FInv, NEW r \in Requests, Lookup(r)
  PROVE  FInv'
<1> DEFINE key  == Key(r, rows)
           kept == ClearStale(key)
           hits == Places(kept.cache, key)
           old  == Keyed(r, key)
<1>1. /\ req[r].pc = "key" /\ req[r].task = "none" /\ IsRequest(req[r])
      /\ UNCHANGED <<rows, imports, raced>>
  BY DEF Lookup, IInv, RequestsOK, IsRequest, GoodRequest, database
<1>2. /\ key.eligibility = EligibilityFingerprint(rows)
      /\ Eligibility = Pairs(rows)
  BY DEF Key, Eligibility, Pairs
<1>3. old = [Fields(req[r]) EXCEPT !.key = key, !.seen = Eligibility]
  BY <1>1, Zenon DEF IsRequest, Keyed
<1>4. /\ \A S : cache \in Seq(S) => kept.cache \in Seq(S)
      /\ \A k \in DOMAIN kept.inFlight :
           k \in DOMAIN inFlight /\ kept.inFlight[k] = inFlight[k]
  <2>1. CASE latest = key.league
    BY <2>1 DEF ClearStale
  <2>2. CASE latest # key.league
    <3>1. kept.cache = <<>> /\ kept.inFlight = NoTasks
      BY <2>2 DEF ClearStale
    <3>2. \A S : <<>> \in Seq(S)
      OBVIOUS
    <3> HIDE DEF kept
    <3>3. QED
      BY <3>1, <3>2 DEF NoTasks
  <2>3. QED
    BY <2>1, <2>2
<1> HIDE DEF key, kept, old
<1>5. /\ old = Fields(old) /\ old.task = "none" /\ old.key = key /\ old.seen = Eligibility
  BY <1>1, <1>3 DEF Fields
<1>6. ASSUME ~raced
      PROVE  /\ Calm /\ TimesOK
             /\ \A E : Known(key.eligibility, E, rows, imports) => E = Eligibility
             /\ Known(key.eligibility, Eligibility, rows, imports)
  <2>1. Calm /\ TimesOK
    BY <1>6 DEF FInv
  <2>2. RowsArePast
    BY <2>1 DEF Calm
  <2>3. Known(key.eligibility, Eligibility, rows, imports)
    BY <1>2, <2>1, <2>2, CurrentIsKnown
  <2>4. ASSUME NEW E, Known(key.eligibility, E, rows, imports)
        PROVE  E = Eligibility
    <3>1. Known(EligibilityFingerprint(rows), E, rows, imports)
      BY <1>2, <2>4
    <3>2. QED
      BY <1>2, <2>1, <3>1, KnownIsCurrent
  <2>5. QED
    BY <2>1, <2>3, <2>4
<1>7. ASSUME ~raced, cache' = kept.cache PROVE CacheKnown'
  <2>1. PICK S : /\ cache \in Seq(S)
                 /\ \A e \in S : Known(e.key.eligibility, e.value.eligibility, rows, imports)
    BY <1>6, <1>7 DEF Calm, CacheKnown
  <2>2. cache' \in Seq(S)
    BY <1>4, <1>7, <2>1
  <2>3. QED
    BY <1>1, <2>1, <2>2, KnownCache
<1>8. ASSUME NEW at \in hits,
             Step(r, [old EXCEPT !.pc = "done", !.reply = kept.cache[at].value, !.key = None]),
             cache' = SetLast(kept.cache, key, kept.cache[at].value)
      PROVE  FInv'
  <2> DEFINE value == kept.cache[at].value
             q == [old EXCEPT !.pc = "done", !.reply = value, !.key = None]
  <2>1. at \in DOMAIN kept.cache /\ kept.cache[at].key = key
    BY <1>8 DEF Places
  <2>2. q = [Fields(old) EXCEPT !.pc = "done", !.reply = value, !.key = None]
    BY <1>5, Zenon
  <2>3. Step(r, q) /\ cache' = SetLast(kept.cache, key, value)
    BY <1>8
  <2>4. value = kept.cache[at].value
    OBVIOUS
  <2> HIDE DEF value, q
  <2>5. q.pc = "done" /\ q.task = "none" /\ q.seen = Eligibility /\ q.reply = value
    BY <2>2, <1>5 DEF Fields
  <2>6. ASSUME ~raced
        PROVE  GoodSeen(q, req, rows, imports) /\ CacheKnown'
    <3>1. PICK S : /\ cache \in Seq(S)
                   /\ \A e \in S : Known(e.key.eligibility, e.value.eligibility, rows, imports)
      BY <1>6, <2>6 DEF Calm, CacheKnown
    <3>2. kept.cache \in Seq(S)
      BY <1>4, <3>1
    <3>3. kept.cache[at] \in S
      BY <2>1, <3>2
    <3>4. Known(key.eligibility, value.eligibility, rows, imports)
      BY <2>1, <2>4, <3>1, <3>3
    <3>5. value.eligibility = Eligibility
      BY <1>6, <2>6, <3>4
    <3>6. GoodSeen(q, req, rows, imports)
      BY <2>5, <3>5 DEF GoodSeen
    <3> DEFINE new == [key |-> key, value |-> value]
               T   == S \cup {new}
    <3>7. kept.cache \in Seq(T)
      BY <3>2, SeqMonotonic
    <3>8. SetLast(kept.cache, key, value) \in Seq(T)
      BY <3>7, SetLastIn
    <3>9. new.key = key /\ new.value = value
      OBVIOUS
    <3> HIDE DEF new
    <3>10. \A e \in T : Known(e.key.eligibility, e.value.eligibility, rows, imports)
      BY <3>1, <3>4, <3>9
    <3> HIDE DEF T
    <3>11. CacheKnown'
      BY <1>1, <2>3, <3>8, <3>10, KnownCache
    <3>12. QED
      BY <3>6, <3>11
  <2>7. QED
    BY <1>1, <2>3, <2>6, StepKeepsFInv DEF IInv
<1>9. ASSUME key \in DOMAIN kept.inFlight,
             Step(r, [old EXCEPT !.pc = "joined", !.on = kept.inFlight[key]]),
             cache' = kept.cache
      PROVE  FInv'
  <2> DEFINE s == kept.inFlight[key]
             q == [old EXCEPT !.pc = "joined", !.on = s]
  <2>1. s \in Requests /\ req[s].pc = "computing" /\ req[s].key = key
    BY <1>4, <1>9 DEF IInv, TasksOK
  <2>2. q = [Fields(old) EXCEPT !.pc = "joined", !.on = s]
    BY <1>5, Zenon
  <2>3. Step(r, q)
    BY <1>9
  <2> HIDE DEF s, q
  <2>4. q.pc = "joined" /\ q.task = "none" /\ q.on = s /\ q.seen = Eligibility
    BY <2>2, <1>5 DEF Fields
  <2>5. ASSUME ~raced
        PROVE  GoodSeen(q, req, rows, imports)
    <3>1. GoodSeen(req[s], req, rows, imports)
      BY <1>6, <2>1, <2>5 DEF Calm, SeenOK
    <3>2. Known(key.eligibility, req[s].seen, rows, imports)
      BY <2>1, <3>1 DEF GoodSeen
    <3>3. req[s].seen = Eligibility
      BY <1>6, <2>5, <3>2
    <3>4. QED
      BY <2>4, <3>3 DEF GoodSeen
  <2>6. QED
    BY <1>1, <1>7, <1>9, <2>3, <2>5, StepKeepsFInv DEF IInv
<1>10. ASSUME Step(r, [old EXCEPT !.pc = "computing", !.task = "running"]),
              cache' = kept.cache
       PROVE  FInv'
  <2> DEFINE q == [old EXCEPT !.pc = "computing", !.task = "running"]
  <2>1. q = [Fields(old) EXCEPT !.pc = "computing", !.task = "running"]
    BY <1>5, Zenon
  <2>2. Step(r, q)
    BY <1>10
  <2> HIDE DEF q
  <2>3. q.pc = "computing" /\ q.task = "running" /\ q.key = key /\ q.seen = Eligibility
    BY <2>1, <1>5 DEF Fields
  <2>4. ASSUME ~raced
        PROVE  GoodSeen(q, req, rows, imports)
    BY <1>2, <1>6, <2>3, <2>4 DEF GoodSeen
  <2>5. QED
    BY <1>1, <1>7, <1>10, <2>2, <2>4, StepKeepsFInv DEF IInv
<1>11. QED
  BY <1>8, <1>9, <1>10 DEF Lookup, key, kept, old

-------------------------------------------------------------------------------
(* The steps around the requests                                            *)

LEMMA FiniteImage ==
  ASSUME NEW S, IsFiniteSet(S), NEW f
  PROVE  IsFiniteSet({f[x] : x \in S})
<1> DEFINE T == {f[x] : x \in S}
           g == [x \in S |-> f[x]]
<1>1. g \in Surjection(S, T)
  BY DEF Surjection
<1>2. QED
  BY <1>1, FS_Surjection

\* What is known stays so while no time that was known becomes future, and no
\* computation runs into other rows.
LEMMA OutsideKeepsKnown ==
  ASSUME SeenOK, CacheKnown, UNCHANGED <<req, cache>>,
         \A fp, E : Known(fp, E, rows, imports) => Known(fp, E, rows', imports'),
         \A r \in Requests : req[r].task = "running" => rows' = rows
  PROVE  SeenOK' /\ CacheKnown'
<1>1. ASSUME NEW r \in Requests
      PROVE  GoodSeen(req[r], req, rows', imports')
  <2>1. GoodSeen(req[r], req, rows, imports)
    BY DEF SeenOK
  <2>2. QED
    BY <2>1 DEF GoodSeen
<1>2. SeenOK'
  BY <1>1 DEF SeenOK
<1>3. PICK S : /\ cache \in Seq(S)
               /\ \A e \in S : Known(e.key.eligibility, e.value.eligibility, rows, imports)
  BY DEF CacheKnown
<1>4. \A e \in S : Known(e.key.eligibility, e.value.eligibility, rows', imports')
  BY <1>3
<1>5. CacheKnown'
  BY <1>3, <1>4 DEF CacheKnown
<1>6. QED
  BY <1>2, <1>5

\* An import begins later than all before it.
LEMMA BeginIsLater ==
  ASSUME TimesOK, NEW i \in Importers, NEW p \in Players, BeginImport(i, p)
  PROVE  /\ imports' = [imports EXCEPT ![i] = imports'[i]]
         /\ imports'[i].state = "open" /\ imports'[i].player = p
         /\ imports'[i] \in [state : {"new", "open", "done"},
                             player : Players \cup {None}, at : Nat]
         /\ \A j \in Importers : imports[j].at < imports'[i].at
         /\ \A N \in Nat : (\A j \in Importers : imports[j].at <= N) => imports'[i].at <= N + 1
<1> DEFINE A == {imports[j].at : j \in Importers}
           m == Max(A)
           new == [state |-> "open", player |-> p, at |-> 1 + m]
<1>1. imports' = [imports EXCEPT ![i] = new]
  BY DEF BeginImport
<1>2. A \in SUBSET Int /\ A # {} /\ \A j \in Importers : imports[j].at \in A /\ imports[j].at \in Nat
  BY DEF TimesOK, ImportsOK
<1>3. PICK N \in Nat : \A x \in A : x <= N
  BY DEF TimesOK, Bounded
<1>4. \A n : (\A j \in Importers : imports[j].at <= n) => \A x \in A : x <= n
  OBVIOUS
<1>10. \A x \in A : x \in Nat
  BY <1>2
<1> HIDE DEF A
<1>5. m \in A /\ \A x \in A : x <= m
  BY <1>2, <1>3, MaxOfBounded
<1> HIDE DEF m
<1>6. m \in Nat /\ 1 + m \in Nat
  BY <1>5, <1>10, SMT
<1>7. imports'[i] = new
  BY <1>1 DEF TimesOK, ImportsOK
<1>8. new.state = "open" /\ new.player = p /\ new.at = 1 + m
      /\ new \in [state : {"new", "open", "done"}, player : Players \cup {None}, at : Nat]
  BY <1>6
<1> HIDE DEF new
<1>9. /\ \A j \in Importers : imports[j].at < 1 + m
      /\ \A n \in Nat : (\A j \in Importers : imports[j].at <= n) => 1 + m <= n + 1
  <2>1. \A j \in Importers : imports[j].at <= m /\ imports[j].at \in Nat
    BY <1>2, <1>5
  <2>2. \A a \in Nat : a <= m => a < 1 + m
    BY <1>6, SMT
  <2>3. \A n \in Nat : m <= n => 1 + m <= n + 1
    BY <1>6, SMT
  <2>4. QED
    BY <1>4, <1>5, <2>1, <2>2, <2>3
<1>11. QED
  BY <1>1, <1>7, <1>8, <1>9

\* No known time becomes future when an import begins.
LEMMA BeginKeepsPast ==
  ASSUME TimesOK, NEW i \in Importers, NEW p \in Players, BeginImport(i, p),
         NEW t, Past(t, imports)
  PROVE  Past(t, imports')
<1>1. /\ imports' = [imports EXCEPT ![i] = imports'[i]]
      /\ \A j \in Importers : imports[j].at < imports'[i].at
      /\ imports'[i].at \in Nat
      /\ \A j \in Importers : imports[j].at \in Nat
  BY BeginIsLater DEF TimesOK, ImportsOK
<1>2. \A j \in Importers \ {i} : imports'[j] = imports[j]
  BY <1>1 DEF TimesOK, ImportsOK
<1>3. t \in Int
  BY DEF Past
<1>4. \A j \in Importers : imports[j].at <= imports'[j].at
  <2>1. \A j \in Importers \ {i} : imports[j].at <= imports'[j].at
    BY <1>1, <1>2
  <2>2. imports[i].at <= imports'[i].at
    BY <1>1
  <2>3. QED
    BY <2>1, <2>2
<1>5. \A j \in Importers : imports'[j].at \in Nat
  BY <1>1, <1>2
<1>6. t <= 0 \/ \E j \in Importers : t <= imports'[j].at
  <2>1. ASSUME NEW j \in Importers, t <= imports[j].at
        PROVE  t <= imports'[j].at
    <3>1. imports[j].at \in Nat /\ imports'[j].at \in Nat /\ imports[j].at <= imports'[j].at
      BY <1>1, <1>4, <1>5
    <3>2. QED
      BY <1>3, <2>1, <3>1
  <2>2. QED
    BY <2>1 DEF Past
<1>7. t < imports'[i].at
  <2>1. CASE t <= 0
    <3>1. imports[i].at \in Nat /\ imports[i].at < imports'[i].at /\ imports'[i].at \in Nat
      BY <1>1
    <3>2. QED
      BY <1>3, <2>1, <3>1
  <2>2. ASSUME NEW j \in Importers, t <= imports[j].at
        PROVE  t < imports'[i].at
    <3>1. imports[j].at \in Nat /\ imports[j].at < imports'[i].at /\ imports'[i].at \in Nat
      BY <1>1
    <3>2. QED
      BY <1>3, <2>2, <3>1
  <2>3. QED
    BY <2>1, <2>2 DEF Past
<1>8. QED
  BY <1>2, <1>3, <1>6, <1>7 DEF Past

\* The beginning of an import changes nothing yet.
LEMMA BeginKeepsFInv ==
  ASSUME IInv, FInv, NEW i \in Importers, NEW p \in Players, BeginImport(i, p)
  PROVE  FInv'
<1>1. /\ TimesOK
      /\ UNCHANGED <<rows, req, cache>>
      /\ raced' = (raced \/ Open # {})
  BY DEF FInv, BeginImport, memory
<1>2. TimesOK'
  <2>1. ImportsOK'
    BY <1>1, BeginIsLater DEF TimesOK, ImportsOK
  <2>2. PICK N \in Nat : Bounded(N)
    BY <1>1 DEF TimesOK
  <2>3. \A j \in Importers : imports[j].at <= N /\ imports[j].at \in Nat
    BY <1>1, <2>2 DEF Bounded, TimesOK, ImportsOK
  <2>4. /\ imports'[i].at <= N + 1
        /\ \A j \in Importers \ {i} : imports'[j] = imports[j]
    BY <1>1, <2>3, BeginIsLater DEF TimesOK, ImportsOK
  <2>5. \A j \in Importers : imports'[j].at <= N + 1
    <3>1. \A n \in Nat : n <= N => n <= N + 1
      BY SMT
    <3>2. QED
      BY <2>3, <2>4, <3>1
  <2>6. \A e \in rows : e.at \in 0 .. (N + 1)
    <3>1. \A n \in 0 .. N : n \in 0 .. (N + 1)
      BY SMT
    <3>2. QED
      BY <2>2, <3>1 DEF Bounded
  <2>7. Bounded(N + 1)' /\ N + 1 \in Nat
    BY <1>1, <2>5, <2>6 DEF Bounded
  <2>8. QED
    BY <1>1, <2>1, <2>7 DEF TimesOK
<1>3. ASSUME ~raced' PROVE Calm'
  <2>1. Calm /\ Open = {}
    BY <1>1, <1>3 DEF FInv
  <2>2. \A j \in Importers \ {i} : imports'[j] = imports[j]
    BY <1>1, BeginIsLater DEF TimesOK, ImportsOK
  <2>3. Alone'
    BY <2>1, <2>2 DEF Alone, Open
  <2>4. \A t : Past(t, imports) => Past(t, imports')
    BY <1>1, BeginKeepsPast
  <2>5. RowsArePast'
    BY <1>1, <2>1, <2>4 DEF Calm, RowsArePast
  <2>6. \A fp, E : Known(fp, E, rows, imports) => Known(fp, E, rows', imports')
    BY <1>1, <2>4 DEF Known
  <2>7. SeenOK' /\ CacheKnown'
    BY <1>1, <2>1, <2>6, OutsideKeepsKnown DEF Calm
  <2>8. QED
    BY <2>3, <2>5, <2>7 DEF Calm
<1>4. QED
  BY <1>2, <1>3 DEF FInv

\* A commit leaves old rows or fewer of them, and new rows that are younger
\* than every known fingerprint.
LEMMA CommitKeepsFInv ==
  ASSUME IInv, FInv, NEW i \in Importers, NEW positions \in SUBSET Positions,
         CommitImport(i, positions)
  PROVE  FInv'
<1> DEFINE p    == imports[i].player
           a    == imports[i].at
           kept == {e \in rows : e.player = p => e.position \in positions}
           new  == {q \in positions : ~ \E e \in rows : e.player = p /\ e.position = q}
           added == {[player |-> p, position |-> q, at |-> a] : q \in new}
<1>1. /\ TimesOK /\ ImportsOK /\ imports[i].state = "open"
      /\ UNCHANGED <<req, cache>>
      /\ rows' = kept \cup added
      /\ imports' = [imports EXCEPT ![i].state = "done", ![i].player = None]
      /\ raced' = (raced \/ \E r \in Requests : req[r].task = "running")
  BY DEF FInv, TimesOK, CommitImport, memory
<1>2. /\ kept \subseteq rows
      /\ \A e \in added : e.at = a
      /\ IsFiniteSet(kept) /\ IsFiniteSet(added)
  <2>1. IsFiniteSet(new)
    <3>1. new \in SUBSET Positions
      OBVIOUS
    <3> HIDE DEF new
    <3>2. QED
      BY <3>1, FS_Subset, FiniteAssumption
  <2>2. IsFiniteSet(added)
    <3> DEFINE f == [q \in new |-> [player |-> p, position |-> q, at |-> a]]
    <3>1. added = {f[q] : q \in new}
      OBVIOUS
    <3> HIDE DEF new, f, added
    <3>2. IsFiniteSet({f[q] : q \in new})
      BY <2>1, FiniteImage
    <3>3. QED
      BY <3>1, <3>2
  <2>3. kept \in SUBSET rows
    OBVIOUS
  <2>4. IsFiniteSet(kept)
    <3> HIDE DEF kept
    <3>1. QED
      BY <1>1, <2>3, FS_Subset DEF TimesOK
  <2>5. QED
    BY <2>2, <2>3, <2>4
<1>3. a \in Nat
  BY <1>1 DEF ImportsOK
<1>4. /\ imports'[i] = [state |-> "done", player |-> None, at |-> a]
      /\ \A j \in Importers \ {i} : imports'[j] = imports[j]
      /\ \A j \in Importers : imports'[j].at = imports[j].at
      /\ imports' \in [Importers -> [state : {"new", "open", "done"},
                                     player : Players \cup {None}, at : Nat]]
  BY <1>1, <1>3 DEF ImportsOK
<1> HIDE DEF kept, added
<1>5. TimesOK'
  <2>1. PICK N \in Nat : Bounded(N)
    BY <1>1 DEF TimesOK
  <2>2. a \in 0 .. N
    BY <1>3, <2>1 DEF Bounded
  <2>3. Bounded(N)'
    BY <1>1, <1>2, <1>4, <2>1, <2>2 DEF Bounded
  <2>4. IsFiniteSet(rows')
    BY <1>1, <1>2, FS_Union
  <2>5. ImportsOK'
    BY <1>4 DEF ImportsOK
  <2>6. QED
    BY <2>3, <2>4, <2>5 DEF TimesOK
<1>6. ASSUME ~raced' PROVE Calm'
  <2>1. Calm /\ \A r \in Requests : req[r].task # "running"
    BY <1>1, <1>6 DEF FInv
  <2>2. \A j \in Importers : imports'[j].state # "open"
    <3>1. \A j \in Importers \ {i} : imports[j].state # "open"
      BY <1>1, <2>1 DEF Calm, Alone
    <3>2. imports'[i].state = "done"
      BY <1>4
    <3>3. QED
      BY <1>4, <3>1, <3>2
  <2>3. Alone'
    BY <2>2 DEF Alone
  <2>4. \A t : Past(t, imports) => Past(t, imports')
    BY <1>4, <2>2 DEF Past
  <2>5. Past(a, imports')
    <3>1. a <= imports'[i].at /\ a \in Int
      BY <1>3, <1>4
    <3>2. QED
      BY <2>2, <3>1 DEF Past
  <2>6. RowsArePast'
    BY <1>1, <1>2, <2>1, <2>4, <2>5 DEF Calm, RowsArePast
  <2>7. ASSUME NEW fp, NEW E, Known(fp, E, rows, imports)
        PROVE  Known(fp, E, rows', imports')
    <3>1. Past(fp[2], imports) /\ Past(fp[2], imports')
      BY <2>4, <2>7 DEF Known
    <3>2. ~(a <= fp[2])
      <4>1. fp[2] \in Int /\ fp[2] < a
        BY <1>1, <3>1 DEF Past
      <4> DEFINE t == fp[2]
      <4> HIDE DEF t, a
      <4>2. t \in Int /\ t < a => ~(a <= t)
        BY <1>3, SMT
      <4>3. QED
        BY <4>1, <4>2 DEF t
    <3>3. UpTo(fp[2], rows') \subseteq UpTo(fp[2], rows)
      BY <1>1, <1>2, <3>2 DEF UpTo
    <3>4. QED
      BY <2>7, <3>1, <3>3 DEF Known
  <2>8. SeenOK' /\ CacheKnown'
    BY <1>1, <2>1, <2>7, OutsideKeepsKnown DEF Calm
  <2>9. QED
    BY <2>3, <2>6, <2>8 DEF Calm
<1>7. QED
  BY <1>5, <1>6 DEF FInv

\* A step that touches neither rows, imports nor requests.
LEMMA OtherStepKeepsFInv ==
  ASSUME FInv, UNCHANGED <<rows, imports, req, cache, raced>>
  PROVE  FInv'
BY DEF FInv, TimesOK, ImportsOK, Bounded, Calm, Alone, RowsArePast, CacheKnown, SeenOK

-------------------------------------------------------------------------------
(* The invariant                                                            *)

\* At the start every row is of time 0 and nothing is known.
LEMMA InitEstablishesFInv ==
  Init => FInv
<1> SUFFICES ASSUME Init PROVE FInv
  OBVIOUS
<1>1. ImportsOK /\ \A i \in Importers : imports[i].state = "new" /\ imports[i].at = 0
  BY DEF Init, ImportsOK
<1>2. IsFiniteSet(rows) /\ \A e \in rows : e.at = 0
  <2> DEFINE f == [p \in Players |-> [player |-> p,
                     position |-> CHOOSE q \in Positions : TRUE, at |-> 0]]
  <2>1. rows = {f[p] : p \in Players} /\ \A e \in rows : e.at = 0
    BY DEF Init
  <2> HIDE DEF f
  <2>2. QED
    BY <2>1, FiniteImage, FiniteAssumption
<1>3. TimesOK
  <2>1. Bounded(0)
    BY <1>1, <1>2 DEF Bounded
  <2>2. QED
    BY <1>1, <1>2, <2>1 DEF TimesOK
<1>4. Alone /\ RowsArePast
  BY <1>1, <1>2 DEF Alone, RowsArePast, Past
<1>5. CacheKnown
  <2>1. cache \in Seq({})
    BY DEF Init
  <2>2. QED
    BY <2>1 DEF CacheKnown
<1>6. SeenOK
  BY DEF Init, SeenOK, GoodSeen, Idle
<1>7. QED
  BY <1>3, <1>4, <1>5, <1>6 DEF FInv, Calm

\* One case per disjunct of Next.
LEMMA NextKeepsFInv ==
  IInv /\ FInv /\ [Next]_vars => FInv'
<1> SUFFICES ASSUME IInv, FInv, [Next]_vars PROVE FInv'
  OBVIOUS
<1>1. ASSUME NEW r \in Requests,
             ReadLeague(r) \/ \E op \in Ops, ask \in Asks : ReadContext(r, op, ask)
      PROVE  FInv'
  BY <1>1, ReadKeepsFInv
<1>2. ASSUME NEW r \in Requests, Lookup(r) PROVE FInv'
  BY <1>2, LookupKeepsFInv
<1>3. ASSUME NEW r \in Requests, Compute(r) PROVE FInv'
  BY <1>3, ComputeKeepsFInv
<1>4. ASSUME NEW r \in Requests, Finish(r) PROVE FInv'
  BY <1>4, FinishKeepsFInv
<1>5. ASSUME NEW r \in Requests, JoinEnds(r) PROVE FInv'
  BY <1>5, JoinEndsKeepsFInv
<1>6. CASE SaveLeague
  BY <1>6, OtherStepKeepsFInv DEF SaveLeague, memory
<1>7. CASE ChangeDraft
  BY <1>7, OtherStepKeepsFInv DEF ChangeDraft, memory
<1>8. ASSUME NEW i \in Importers, NEW p \in Players, BeginImport(i, p) PROVE FInv'
  BY <1>8, BeginKeepsFInv
<1>9. ASSUME NEW i \in Importers, NEW positions \in SUBSET Positions \ {{}},
             CommitImport(i, positions)
      PROVE  FInv'
  BY <1>9, CommitKeepsFInv
<1>10. CASE UNCHANGED vars
  BY <1>10, OtherStepKeepsFInv DEF vars
<1>11. QED
  BY <1>1, <1>2, <1>3, <1>4, <1>5, <1>6, <1>7, <1>8, <1>9, <1>10 DEF Next

\* As long as imports neither overlap nor commit during a computation, a
\* request is answered with the eligibility it found together with its key.
THEOREM AnswersAreFresh == Spec => []FreshUnlessRaced
<1>1. Init => IInv /\ FInv
  BY InitEstablishesIInv, InitEstablishesFInv
<1>2. IInv /\ FInv /\ [Next]_vars => (IInv /\ FInv)'
  BY NextKeepsIInv, NextKeepsFInv
<1>3. FInv => FreshUnlessRaced
  BY DEF FInv, Calm, SeenOK, GoodSeen, FreshUnlessRaced
<1>4. QED
  BY <1>1, <1>2, <1>3, PTL DEF Spec
=============================================================================
