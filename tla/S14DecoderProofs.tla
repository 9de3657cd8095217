--------------------------- MODULE S14DecoderProofs ---------------------------
(***************************************************************************)
(* Proofs about S14Decoder for every network, every number of layers and   *)
(* experts and every budget: whatever fails, the reference decoder decodes *)
(* greedily (it implements GreedyDecoding), the pool fetches nothing but   *)
(* the submitted route and stays within the budget, and the report in the  *)
(* file claims no token that was not committed.                            *)
(***************************************************************************)
EXTENDS S14Decoder, FiniteSetTheorems, SequenceTheorems, TLAPS

-----------------------------------------------------------------------------
(* Where execute is *)

(* A layer's route is submitted. *)
Fetching == {"prefetch", "pool", "drain", "routed"}
InToken == {"embedding", "base", "finish", "final", "commit"} \cup Fetching
Locations ==
  {"begin", "boot", "token", "checkpoint", "report", "handler", "returned", "raised"} \cup InToken

SessionFollows ==
  /\ session \in [phase : {"init", "awaiting_layer", "routed", "layer_ready", "final_pending",
                           "complete"}, layer : Nat \ {0}, route : SUBSET Experts]
  /\ pc = "embedding" => session.layer = 1
  /\ pc \in {"base", "finish"} \cup Fetching => session.layer \in 1..Layers
  /\ pc \in Fetching => session.phase = "routed"

-----------------------------------------------------------------------------
(* The tokens *)

Log == <<BOS>> \o snapshot.committed

(* What the runtime stands for: every layer has taken in the log up to, and
   without, the next input. *)
Runtime ==
  /\ snapshot \in [position : Nat, input : Tokens, windows : Seq(Windows), committed : Seq(Tokens)]
  /\ snapshot.position = Len(snapshot.committed)
  /\ snapshot.position <= config.tokens
  /\ Len(snapshot.windows) = Layers
  /\ \A l \in 1..Layers : Append(snapshot.windows[l], snapshot.input) = Log

(* How many layers have attended to the token that is being computed. *)
LayersAttended ==
  CASE pc = "embedding"                  -> 0
    [] pc = "base"                       -> session.layer - 1
    [] pc \in {"finish"} \cup Fetching   -> session.layer
    [] OTHER                             -> Layers

(* The token in hand is computed from the log, layer by layer. *)
InHand ==
  pc \in InToken =>
    /\ Requested
    /\ work.previous = snapshot.windows
    /\ work.next \in Seq(Windows) /\ Len(work.next) = LayersAttended
    /\ \A l \in 1..LayersAttended : work.next[l] = Log
    /\ work.seen = IF LayersAttended = 0 THEN {} ELSE {Log}

Decoding ==
  /\ config \in Config
  /\ pc \in Locations
  /\ work = [previous |-> work.previous, next |-> work.next, seen |-> work.seen,
             planned |-> work.planned]
  /\ SessionFollows
  /\ Runtime
  /\ InHand

-----------------------------------------------------------------------------
(* The report *)

TokenEntry ==
  [status : {"running", "checkpoint_complete", "final_ready_not_committed", "complete", "blocked"},
   state_committed : BOOLEAN]

(* No claim goes beyond what was committed. *)
Claims(r) ==
  /\ r \in Report
  /\ Len(r.committed) <= Len(snapshot.committed)
  /\ \A i \in 1..Len(r.committed) : r.committed[i] = snapshot.committed[i]
  /\ \A i \in 1..Len(r.tokens) : r.tokens[i].state_committed => i <= Len(snapshot.committed)

ReportFollows ==
  /\ Claims(report) /\ Claims(disk)
  /\ pc = "begin" => snapshot.committed = << >>
  /\ pc \in {"begin", "boot", "token"} =>
       Len(report.tokens) = Len(snapshot.committed) /\ report.committed = snapshot.committed
  /\ pc \in InToken \cup {"checkpoint"} =>
       Len(report.tokens) = Len(snapshot.committed) + 1 /\ report.committed = snapshot.committed
  /\ pc = "report" => Len(report.tokens) = Len(snapshot.committed) /\ report.tokens # << >>
  /\ pc # "returned" => disk.status \in {"none", "running"}
  /\ pc \notin {"returned", "raised", "handler"} => report.status = "running"
  /\ disk.status \in {"complete", "blocked"} => disk.committed = snapshot.committed
  /\ disk.status = "complete" => Len(disk.committed) = config.tokens

-----------------------------------------------------------------------------
(* The pool *)

Queued == InPhase({"queued"})
Running == InPhase({"running"})

(* The workers fetch the route of the current layer, and together they have
   reserved what they are going to read. *)
PoolFollows ==
  /\ cache = [have |-> cache.have, part |-> cache.part, used |-> cache.used,
              reserved |-> cache.reserved]
  /\ cache.used \in Nat
  /\ IsFiniteSet(Futures)
  /\ \A r \in Futures : pool[r] \in Finished \cup {"queued", "running", "cancelled"}
  /\ pc \in {"pool", "drain"} => Futures = Routed /\ config.allow
  /\ pc \notin {"pool", "drain"} => Queued = {} /\ Running = {}
  /\ pc = "drain" => Queued = {}
  /\ cache.reserved = Cardinality(Running \ cache.part)

(* As long as no response was too long, the budget has room for what is queued. *)
RoomForAll ==
  pc \in {"pool", "drain"} /\ InPhase({"contract"}) = {} =>
    cache.used + cache.reserved + Cardinality(Queued) <= config.budget

IInv == Decoding /\ ReportFollows /\ PoolFollows /\ RoomForAll /\ ParallelIsAffordable

-----------------------------------------------------------------------------
(* The tokens: proofs *)

(* The tokens in the window of a context are a sequence of tokens. *)
LEMMA WindowIsSequence == Windows = Seq(Tokens)
BY DEF Windows

(* The log, as long as the run may still ask for a token, is a context. *)
LEMMA LogProperties ==
  ASSUME Runtime, config \in Config
  PROVE  /\ Log \in Seq(Tokens) /\ Len(Log) = snapshot.position + 1
         /\ snapshot.position \in Nat /\ config.tokens \in 1..2
         /\ Requested => Native(Log) \in Tokens
<1>1. <<BOS>> \in Seq(Tokens) /\ Len(<<BOS>>) = 1
  BY DecoderAssumption
<1>2. snapshot.committed \in Seq(Tokens) /\ snapshot.position \in Nat
      /\ snapshot.position = Len(snapshot.committed)
  BY DEF Runtime
<1>3. Log \in Seq(Tokens) /\ Len(Log) = snapshot.position + 1
  BY <1>1, <1>2, ConcatProperties DEF Log
<1>4. config.tokens \in 1..2
  BY DEF Config
<1>5. ASSUME Requested
      PROVE  Native(Log) \in Tokens
  <2>1. Len(Log) \in 1..2
    BY <1>2, <1>3, <1>4, <1>5 DEF Requested
  <2>2. Log \in [1..Len(Log) -> Tokens]
    BY <1>3, ElementOfSeq
  <2>3. Log \in Contexts
    BY <2>1, <2>2 DEF Contexts
  <2> QED BY <2>3, NativeAssumption
<1> QED BY <1>2, <1>3, <1>4, <1>5

(* A step that leaves the token, and the runtime as it was. *)
LEMMA LeavesToken ==
  ASSUME Decoding, UNCHANGED <<config, snapshot>>, pc' \in Locations \ InToken,
         work' = [previous |-> work'.previous, next |-> work'.next, seen |-> work'.seen,
                  planned |-> work'.planned],
         session' \in [phase : {"init", "awaiting_layer", "routed", "layer_ready", "final_pending",
                                "complete"}, layer : Nat \ {0}, route : SUBSET Experts]
  PROVE  Decoding'
<1>1. SessionFollows'
  BY DEF SessionFollows, Locations, InToken, Fetching
<1>2. Runtime'
  BY DEF Decoding, Runtime, Log
<1>3. InHand'
  BY DEF InHand
<1> QED BY <1>1, <1>2, <1>3 DEF Decoding

(* A step while the experts of a layer are fetched. *)
LEMMA StaysInLayer ==
  ASSUME Decoding, UNCHANGED <<config, snapshot>>, pc \in Fetching, pc' \in Fetching \cup {"finish"},
         work' = work \/ work' = [work EXCEPT !.planned = TRUE],
         \/ session' = session /\ pc' \in Fetching
         \/ session' = [session EXCEPT !.phase = "layer_ready"] /\ pc' = "finish"
  PROVE  Decoding'
<1>1. /\ work'.previous = work.previous /\ work'.next = work.next /\ work'.seen = work.seen
      /\ work' = [previous |-> work'.previous, next |-> work'.next, seen |-> work'.seen,
                  planned |-> work'.planned]
  BY DEF Decoding
<1>2. SessionFollows' /\ session'.layer = session.layer
  BY DEF Decoding, SessionFollows, Fetching
<1>3. LayersAttended = session.layer /\ LayersAttended' = session'.layer
  BY DEF LayersAttended, Fetching
<1>4. InHand'
  BY <1>1, <1>2, <1>3 DEF Decoding, InHand, InToken, Requested, Log
<1>5. pc' \in Locations /\ Runtime'
  BY DEF Decoding, Runtime, Log, Locations, InToken
<1> QED BY <1>1, <1>2, <1>4, <1>5 DEF Decoding

(* Beginning the next token keeps what is known of the tokens in hand. *)
LEMMA StartsToken ==
  ASSUME Decoding, TokenStarts
  PROVE  Decoding'
<1>1. /\ UNCHANGED <<config, snapshot>> /\ Requested /\ session' = NewSession
      /\ work' = [previous |-> snapshot.windows, next |-> << >>, seen |-> {}, planned |-> FALSE]
      /\ pc' \in {"embedding", "handler"}
  BY DEF TokenStarts, Saves
<1>2. session' \in [phase : {"init", "awaiting_layer", "routed", "layer_ready", "final_pending",
                             "complete"}, layer : Nat \ {0}, route : SUBSET Experts]
      /\ session'.layer = 1
  BY <1>1 DEF NewSession
<1>3. CASE pc' = "handler"
  BY <1>1, <1>2, <1>3, LeavesToken DEF Locations, InToken, Fetching
<1>4. CASE pc' = "embedding"
  <2>1. SessionFollows' /\ LayersAttended' = 0
    BY <1>2, <1>4 DEF SessionFollows, LayersAttended, Fetching
  <2>2. work'.next \in Seq(Windows) /\ Len(work'.next) = 0 /\ work'.seen = {}
        /\ work'.previous = snapshot'.windows
    BY <1>1
  <2>3. InHand'
    BY <1>1, <2>1, <2>2 DEF InHand, Requested
  <2>4. Runtime' /\ pc' \in Locations
    BY <1>1, <1>4 DEF Decoding, Runtime, Log, Locations, InToken
  <2> QED BY <1>1, <2>1, <2>3, <2>4 DEF Decoding
<1> QED BY <1>1, <1>3, <1>4

(* A step between two layers, at which nothing is attended to. *)
LEMMA BetweenLayers ==
  ASSUME Decoding, UNCHANGED <<config, snapshot, work>>, pc \in InToken, pc' \in InToken,
         SessionFollows', LayersAttended' = LayersAttended
  PROVE  Decoding'
<1>1. InHand'
  BY DEF Decoding, InHand, Requested, Log
<1>2. Runtime' /\ pc' \in Locations
  BY DEF Decoding, Runtime, Log, Locations
<1> QED BY <1>1, <1>2 DEF Decoding

(* The attention of a layer: its clone takes in the input, and stands for the log. *)
LEMMA RoutesLayer ==
  ASSUME Decoding, Routes
  PROVE  Decoding'
<1>1. /\ pc = "base" /\ session.layer \in 1..Layers /\ UNCHANGED config
      /\ session \in [phase : {"init", "awaiting_layer", "routed", "layer_ready", "final_pending",
                               "complete"}, layer : Nat \ {0}, route : SUBSET Experts]
  BY DEF Routes, Decoding, SessionFollows
<1>2. CASE Raises /\ UNCHANGED <<snapshot, session, work>>
  BY <1>1, <1>2, LeavesToken DEF Raises, Decoding, Locations, InToken, Fetching
<1>3. ASSUME Continuous(session.layer), Attended(session.layer),
             NEW route \in kSubset(TopK, Experts),
             session' = [session EXCEPT !.phase = "routed", !.route = route],
             Saves(report, "prefetch")
      PROVE  Decoding'
  <2> DEFINE l == session.layer
             window == Append(work.previous[l], snapshot.input)
  <2>1. /\ UNCHANGED snapshot /\ pc' \in {"prefetch", "handler"}
        /\ work' = [work EXCEPT !.next = Append(work.next, window), !.seen = work.seen \cup {window},
                                !.planned = FALSE]
    BY <1>3 DEF Attended, Saves
  <2>2. /\ work'.previous = work.previous /\ work'.next = Append(work.next, window)
        /\ work'.seen = work.seen \cup {window}
        /\ work' = [previous |-> work'.previous, next |-> work'.next, seen |-> work'.seen,
                    planned |-> work'.planned]
    BY <2>1 DEF Decoding
  <2>3. route \subseteq Experts
    BY DEF kSubset
  <2>4. session' \in [phase : {"init", "awaiting_layer", "routed", "layer_ready", "final_pending",
                               "complete"}, layer : Nat \ {0}, route : SUBSET Experts]
        /\ session'.layer = l /\ session'.phase = "routed"
    BY <1>1, <1>3, <2>3
  <2>5. CASE pc' = "handler"
    BY <1>1, <2>1, <2>2, <2>4, <2>5, LeavesToken DEF Locations, InToken, Fetching
  <2>6. CASE pc' = "prefetch"
    <3>11. LayersAttended = l - 1 /\ pc \in InToken
      BY <1>1 DEF LayersAttended, InToken, Fetching
    <3>1. /\ Runtime /\ Requested /\ work.previous = snapshot.windows
          /\ work.next \in Seq(Windows) /\ Len(work.next) = l - 1
          /\ \A i \in 1..(l - 1) : work.next[i] = Log
          /\ work.seen = IF l - 1 = 0 THEN {} ELSE {Log}
      BY <3>11 DEF Decoding, InHand
    <3>2. window = Log
      BY <1>1, <3>1 DEF Runtime
    <3>3. Log \in Windows /\ Log' = Log
      BY <2>1, <3>1, LogProperties DEF Decoding, Windows, Log
    <3> HIDE DEF window
    <3>4. /\ work'.next \in Seq(Windows) /\ Len(work'.next) = l
          /\ \A i \in 1..(l - 1) : work'.next[i] = work.next[i]
          /\ work'.next[l] = Log
      BY <1>1, <2>2, <3>1, <3>2, <3>3, AppendProperties
    <3>5. \A i \in 1..l : work'.next[i] = Log'
      <4> SUFFICES ASSUME NEW i \in 1..l
                   PROVE  work'.next[i] = Log'
        OBVIOUS
      <4>1. i = l \/ i \in 1..(l - 1)
        BY <1>1
      <4> QED BY <3>1, <3>3, <3>4, <4>1
    <3>6. work'.seen = {Log'}
      BY <2>2, <3>1, <3>2, <3>3
    <3>7. LayersAttended' = l /\ l # 0
      BY <1>1, <2>4, <2>6 DEF LayersAttended, Fetching
    <3> HIDE DEF l
    <3>8. InHand'
      BY <2>1, <2>2, <3>1, <3>4, <3>5, <3>6, <3>7, <1>1 DEF InHand, Requested
    <3>9. SessionFollows'
      BY <1>1, <2>4, <2>6 DEF SessionFollows, Fetching, l
    <3>10. Runtime' /\ pc' \in Locations
      BY <1>1, <2>1, <2>6, <3>1, <3>3 DEF Runtime, Locations, InToken, Fetching
    <3> QED BY <1>1, <2>2, <3>8, <3>9, <3>10 DEF Decoding
  <2> QED BY <2>1, <2>5, <2>6
<1> QED BY <1>1, <1>2, <1>3 DEF Routes

(* The commit: the clones of the layers become the state, together with the
   token that the network gives after the log. *)
LEMMA CommitsToken ==
  ASSUME Decoding, Commits, snapshot' # snapshot
  PROVE  /\ Decoding' /\ pc' = "report"
         /\ snapshot.position < config.tokens
         /\ snapshot'.committed = Append(snapshot.committed, Native(Log))
         /\ Log' = Append(Log, Native(Log))
<1>1. /\ pc = "commit" /\ pc' = "report" /\ Covers
      /\ snapshot' = [position |-> snapshot.position + 1, input |-> Computed,
                      windows |-> work.next, committed |-> Append(snapshot.committed, Computed)]
      /\ UNCHANGED <<config, session, work>>
  BY DEF Commits
<1>2. LayersAttended = Layers /\ Layers \in Nat \ {0} /\ pc \in InToken
  BY <1>1, DecoderAssumption DEF LayersAttended, Fetching, InToken
<1>3. /\ Runtime /\ Requested /\ work.next \in Seq(Windows) /\ Len(work.next) = Layers
      /\ \A l \in 1..Layers : work.next[l] = Log
      /\ work.seen = {Log}
  BY <1>2 DEF Decoding, InHand
<1>4. Computed = Native(Log)
  BY <1>3, FS_Singleton DEF Computed
<1>5. /\ Log \in Seq(Tokens) /\ Native(Log) \in Tokens /\ snapshot.position \in Nat
      /\ config.tokens \in 1..2 /\ snapshot.committed \in Seq(Tokens)
      /\ snapshot.position = Len(snapshot.committed)
  BY <1>3, LogProperties DEF Decoding, Runtime
<1>6. /\ snapshot'.position = snapshot.position + 1 /\ snapshot'.input = Native(Log)
      /\ snapshot'.windows = work.next
      /\ snapshot'.committed = Append(snapshot.committed, Native(Log))
  BY <1>1, <1>4
<1>7. Log' = Append(Log, Native(Log))
  <2>1. <<BOS>> \in Seq(Tokens)
    BY DecoderAssumption
  <2>2. <<BOS>> \o Append(snapshot.committed, Native(Log)) = Append(<<BOS>> \o snapshot.committed, Native(Log))
    <3>1. PICK s \in Seq(Tokens), t \in Tokens : s = snapshot.committed /\ t = Native(Log)
      BY <1>5
    <3>2. Append(s, t) \in Seq(Tokens) /\ Len(Append(s, t)) = Len(s) + 1 /\ Append(s, t)[Len(s) + 1] = t
          /\ \A i \in 1..Len(s) : Append(s, t)[i] = s[i]
      BY AppendProperties
    <3>3. /\ <<BOS>> \o s \in Seq(Tokens) /\ Len(<<BOS>> \o s) = 1 + Len(s)
          /\ \A i \in 1..(1 + Len(s)) : (<<BOS>> \o s)[i] = IF i <= 1 THEN BOS ELSE s[i - 1]
      BY <2>1, ConcatProperties
    <3>4. /\ <<BOS>> \o Append(s, t) \in Seq(Tokens)
          /\ Len(<<BOS>> \o Append(s, t)) = 1 + (Len(s) + 1)
          /\ \A i \in 1..(1 + (Len(s) + 1)) :
               (<<BOS>> \o Append(s, t))[i] = IF i <= 1 THEN BOS ELSE Append(s, t)[i - 1]
      BY <2>1, <3>2, ConcatProperties
    <3>5. /\ Append(<<BOS>> \o s, t) \in Seq(Tokens)
          /\ Len(Append(<<BOS>> \o s, t)) = (1 + Len(s)) + 1
          /\ Append(<<BOS>> \o s, t)[(1 + Len(s)) + 1] = t
          /\ \A i \in 1..(1 + Len(s)) : Append(<<BOS>> \o s, t)[i] = (<<BOS>> \o s)[i]
      BY <3>3, AppendProperties
    <3>6. Len(s) \in Nat
      BY LenProperties
    <3>7. ASSUME NEW i \in 1..(1 + (Len(s) + 1))
          PROVE  (<<BOS>> \o Append(s, t))[i] = Append(<<BOS>> \o s, t)[i]
      <4>1. CASE i <= 1
        <5>1. i = 1 /\ i \in 1..(1 + Len(s))
          BY <3>6, <4>1
        <5> QED BY <3>3, <3>4, <3>5, <5>1
      <4>2. CASE i > 1 /\ i - 1 <= Len(s)
        <5>1. i \in 1..(1 + Len(s)) /\ i - 1 \in 1..Len(s) /\ ~(i <= 1)
          BY <3>6, <4>2
        <5> QED BY <3>2, <3>3, <3>4, <3>5, <5>1
      <4>3. CASE i = Len(s) + 2
        <5>1. i - 1 = Len(s) + 1 /\ ~(i <= 1) /\ i = (1 + Len(s)) + 1
          BY <3>6, <4>3
        <5> QED BY <3>2, <3>4, <3>5, <5>1
      <4> QED BY <3>6, <4>1, <4>2, <4>3
    <3>8. <<BOS>> \o Append(s, t) = Append(<<BOS>> \o s, t)
      BY <3>4, <3>5, <3>6, <3>7, SeqEqual
    <3> QED BY <3>1, <3>8
  <2> QED BY <1>6, <2>2 DEF Log
<1>8. Runtime'
  <2>1. snapshot'.committed \in Seq(Tokens) /\ Len(snapshot'.committed) = snapshot.position + 1
    BY <1>5, <1>6, AppendProperties
  <2>2. \A l \in 1..Layers : Append(snapshot'.windows[l], snapshot'.input) = Log'
    BY <1>3, <1>6, <1>7
  <2>3. snapshot.position + 1 <= config.tokens /\ snapshot.position + 1 \in Nat
    BY <1>3, <1>5 DEF Requested
  <2>4. snapshot' \in [position : Nat, input : Tokens, windows : Seq(Windows), committed : Seq(Tokens)]
    BY <1>1, <1>3, <1>4, <1>5, <1>6, <2>1, <2>3
  <2> QED BY <1>1, <1>3, <1>6, <2>1, <2>2, <2>3, <2>4 DEF Runtime
<1>9. SessionFollows' /\ InHand' /\ pc' \in Locations
  BY <1>1 DEF Decoding, SessionFollows, InHand, InToken, Fetching, Locations
<1>10. snapshot.position < config.tokens
  BY <1>3, <1>5 DEF Requested
<1> QED BY <1>1, <1>6, <1>7, <1>8, <1>9, <1>10 DEF Decoding

(* Every step keeps what is known of the tokens in hand. *)
LEMMA DecodingStep == Decoding /\ [Next]_vars => Decoding'
<1> SUFFICES ASSUME Decoding, [Next]_vars
             PROVE  Decoding'
  OBVIOUS
<1>1. /\ session \in [phase : {"init", "awaiting_layer", "routed", "layer_ready", "final_pending",
                               "complete"}, layer : Nat \ {0}, route : SUBSET Experts]
      /\ work = [previous |-> work.previous, next |-> work.next, seen |-> work.seen,
                 planned |-> work.planned]
  BY DEF Decoding, SessionFollows
<1>2. ASSUME UNCHANGED <<config, snapshot, session, work>>, pc' \in Locations \ InToken
      PROVE  Decoding'
  BY <1>1, <1>2, LeavesToken
<1>3. ASSUME UNCHANGED <<config, snapshot, session, work>>, Raises
      PROVE  Decoding'
  BY <1>2, <1>3 DEF Raises, Locations, InToken, Fetching
<1>4. CASE Begins \/ Boots \/ Checkpoint \/ Reports \/ Completes \/ Handles
  <2>1. UNCHANGED <<config, snapshot, session, work>>
    BY <1>4 DEF Begins, Boots, Checkpoint, Reports, Completes, Handles
  <2>2. pc' \in {"boot", "raised", "token", "handler", "returned"}
    BY <1>4 DEF Begins, Boots, Checkpoint, Reports, Completes, Handles, Saves
  <2> QED BY <1>2, <2>1, <2>2 DEF Locations, InToken, Fetching
<1>5. CASE TokenStarts
  BY <1>5, StartsToken
<1>6. CASE Embeds
  <2>1. UNCHANGED <<config, snapshot, work>> /\ pc = "embedding"
    BY <1>6 DEF Embeds
  <2>2. CASE session' = [session EXCEPT !.phase = "awaiting_layer"] /\ Saves(report, "base")
    <3>1. session.layer = 1
      BY <2>1 DEF Decoding, SessionFollows
    <3>2. /\ session' \in [phase : {"init", "awaiting_layer", "routed", "layer_ready", "final_pending",
                                    "complete"}, layer : Nat \ {0}, route : SUBSET Experts]
          /\ session'.layer = 1 /\ pc' \in {"base", "handler"}
      BY <1>1, <2>2, <3>1 DEF Saves
    <3>3. CASE pc' = "handler"
      BY <1>1, <2>1, <3>2, <3>3, LeavesToken DEF Locations, InToken, Fetching
    <3>4. CASE pc' = "base"
      <4>1. SessionFollows'
        BY <3>2, <3>4, DecoderAssumption DEF SessionFollows, Fetching
      <4>2. LayersAttended' = LayersAttended
        BY <2>1, <3>2, <3>4 DEF LayersAttended, Fetching
      <4> QED BY <2>1, <3>4, <4>1, <4>2, BetweenLayers DEF InToken
    <3> QED BY <3>2, <3>3, <3>4
  <2> QED BY <1>3, <1>6, <2>2 DEF Embeds
<1>7. CASE Routes
  BY <1>7, RoutesLayer
<1>8. CASE Plans
  <2>1. /\ UNCHANGED <<config, snapshot, session>> /\ pc = "prefetch"
        /\ work' = work \/ work' = [work EXCEPT !.planned = TRUE]
        /\ pc' \in {"pool", "routed", "handler"}
    BY <1>8 DEF Plans, Saves
  <2>2. work' = [previous |-> work'.previous, next |-> work'.next, seen |-> work'.seen,
                 planned |-> work'.planned]
    BY <1>1, <2>1
  <2>3. CASE pc' = "handler"
    BY <1>1, <2>1, <2>2, <2>3, LeavesToken DEF Locations, InToken, Fetching
  <2> QED BY <2>1, <2>3, StaysInLayer DEF Fetching
<1>9. CASE PoolSucceeds \/ (\E r \in Futures : PoolFails(r) \/ Worker(r))
  <2>1. UNCHANGED <<config, snapshot, session, work>>
    BY <1>9 DEF PoolSucceeds, PoolFails, Worker, PoolBegins, PoolEnds
  <2>2. UNCHANGED pc \/ (pc = "pool" /\ pc' \in {"routed", "drain"})
    <3>1. ASSUME NEW r, Worker(r)
          PROVE  UNCHANGED pc
      BY <3>1 DEF Worker, PoolBegins, PoolEnds
    <3>2. ASSUME NEW r, PoolFails(r)
          PROVE  pc = "pool" /\ pc' = "drain"
      BY <3>2 DEF PoolFails
    <3> QED BY <1>9, <3>1, <3>2 DEF PoolSucceeds
  <2>3. CASE UNCHANGED pc
    BY <2>1, <2>3 DEF Decoding, SessionFollows, Runtime, InHand, LayersAttended, Log, Requested
  <2> QED BY <2>1, <2>2, <2>3, StaysInLayer DEF Fetching
<1>10. CASE PoolRaises \/ FetchRaises
  BY <1>3, <1>10 DEF PoolRaises, FetchRaises
<1>11. CASE FetchesRouted
  <2>1. UNCHANGED <<config, snapshot, work>> /\ pc = "routed"
        /\ \/ pc' = "finish" /\ session' = [session EXCEPT !.phase = "layer_ready"]
           \/ pc' = pc /\ session' = session
    BY <1>11 DEF FetchesRouted
  <2> QED BY <2>1, StaysInLayer DEF Fetching
<1>12. CASE Retry
  <2>1. UNCHANGED <<config, snapshot, session, work>> /\ pc \in {"routed", "drain"}
        /\ pc' \in {"prefetch", "handler"}
    BY <1>12 DEF Retry, Retries, Saves
  <2>2. CASE pc' = "handler"
    BY <1>2, <2>1, <2>2 DEF Locations, InToken, Fetching
  <2> QED BY <2>1, <2>2, StaysInLayer DEF Fetching
<1>13. CASE FinishesLayer
  <2>1. UNCHANGED <<config, snapshot, work>> /\ pc = "finish" /\ session.layer \in 1..Layers
    BY <1>13 DEF FinishesLayer, Decoding, SessionFollows
  <2>2. CASE ~(Raises /\ UNCHANGED session)
    <3>1. /\ session' = [phase |-> IF session.layer = Layers THEN "final_pending" ELSE "awaiting_layer",
                         layer |-> session.layer + 1, route |-> {}]
          /\ pc' \in {"checkpoint", "final", "base", "handler"}
          /\ pc' = "final" => session.layer = Layers
          /\ pc' = "base" => session.layer # Layers
      BY <1>13, <2>2 DEF FinishesLayer, Saves
    <3>2. session' \in [phase : {"init", "awaiting_layer", "routed", "layer_ready", "final_pending",
                                 "complete"}, layer : Nat \ {0}, route : SUBSET Experts]
          /\ session'.layer = session.layer + 1
      BY <2>1, <3>1
    <3>3. CASE pc' \in {"checkpoint", "handler"}
      BY <1>1, <2>1, <3>2, <3>3, LeavesToken DEF Locations, InToken, Fetching
    <3>4. CASE pc' \in {"final", "base"}
      <4>1. SessionFollows'
        BY <2>1, <3>1, <3>2, <3>4, DecoderAssumption DEF SessionFollows, Fetching
      <4>2. LayersAttended' = LayersAttended
        BY <2>1, <3>1, <3>2, <3>4 DEF LayersAttended, Fetching
      <4> QED BY <2>1, <3>4, <4>1, <4>2, BetweenLayers DEF InToken
    <3> QED BY <3>1, <3>3, <3>4
  <2> QED BY <1>3, <1>13, <2>2 DEF FinishesLayer
<1>14. CASE Finals
  <2>1. UNCHANGED <<config, snapshot, work>> /\ pc = "final"
    BY <1>14 DEF Finals
  <2>2. CASE session' = [session EXCEPT !.phase = "complete"] /\ Saves(FinalReport(report), "commit")
    <3>1. session' \in [phase : {"init", "awaiting_layer", "routed", "layer_ready", "final_pending",
                                 "complete"}, layer : Nat \ {0}, route : SUBSET Experts]
          /\ pc' \in {"commit", "handler"}
      BY <1>1, <2>2 DEF Saves
    <3>2. CASE pc' = "handler"
      BY <1>1, <2>1, <3>1, <3>2, LeavesToken DEF Locations, InToken, Fetching
    <3>3. CASE pc' = "commit"
      <4>1. SessionFollows' /\ LayersAttended' = LayersAttended
        BY <2>1, <3>1, <3>3 DEF SessionFollows, LayersAttended, Fetching
      <4> QED BY <2>1, <3>3, <4>1, BetweenLayers DEF InToken
    <3> QED BY <3>1, <3>2, <3>3
  <2> QED BY <1>3, <1>14, <2>2 DEF Finals
<1>15. CASE Commits
  <2>1. CASE snapshot' = snapshot
    <3>1. UNCHANGED <<config, session, work>> /\ pc' \in {"report", "handler"}
      BY <1>15 DEF Commits, Raises
    <3> QED BY <1>2, <2>1, <3>1 DEF Locations, InToken, Fetching
  <2> QED BY <1>15, <2>1, CommitsToken
<1>16. CASE UNCHANGED vars
  BY <1>16 DEF vars, Decoding, SessionFollows, Runtime, InHand, LayersAttended, Log, Requested
<1> QED
  BY <1>4, <1>5, <1>6, <1>7, <1>8, <1>9, <1>10, <1>11, <1>12, <1>13, <1>14, <1>15, <1>16
     DEF Next, Main

-----------------------------------------------------------------------------
(* The report: proofs *)

(* What a report is made of. *)
LEMMA ReportFields ==
  Report = [status : {"none", "running", "checkpoint_complete", "complete", "blocked"},
            tokens : Seq(TokenEntry), committed : Seq(Tokens)]
BY DEF Report, TokenEntry

(* The entry of the last token is changed, and nothing else. *)
LEMMA OfTokenProperties ==
  ASSUME NEW r \in Report, r.tokens # << >>, NEW f \in {"status", "state_committed"}, NEW x,
         [r.tokens[Len(r.tokens)] EXCEPT ![f] = x] \in TokenEntry
  PROVE  /\ OfToken(r, f, x) \in Report
         /\ OfToken(r, f, x).committed = r.committed
         /\ OfToken(r, f, x).status = r.status
         /\ Len(OfToken(r, f, x).tokens) = Len(r.tokens)
         /\ OfToken(r, f, x).tokens[Len(r.tokens)] = [r.tokens[Len(r.tokens)] EXCEPT ![f] = x]
         /\ \A i \in 1..(Len(r.tokens) - 1) : OfToken(r, f, x).tokens[i] = r.tokens[i]
<1>1. r.tokens \in Seq(TokenEntry)
  BY ReportFields
<1>2. PICK n : n = Len(r.tokens)
  OBVIOUS
<1>3. n \in 1..Len(r.tokens) /\ n \in Nat \ {0}
  BY <1>1, <1>2, EmptySeq, LenProperties
<1>4. PICK e \in TokenEntry : e = [r.tokens[n] EXCEPT ![f] = x]
  BY <1>2
<1>5. OfToken(r, f, x) = [r EXCEPT !.tokens = [r.tokens EXCEPT ![n] = e]]
  BY <1>2, <1>4 DEF OfToken
<1>6. PICK s : s = [r.tokens EXCEPT ![n] = e]
  OBVIOUS
<1>7. /\ s \in Seq(TokenEntry) /\ Len(s) = n
      /\ \A i \in 1..n : s[i] = IF i = n THEN e ELSE r.tokens[i]
  BY <1>1, <1>2, <1>3, <1>6, ExceptSeq
<1>8. OfToken(r, f, x) = [r EXCEPT !.tokens = s]
  BY <1>5, <1>6
<1>9. /\ OfToken(r, f, x) \in Report /\ OfToken(r, f, x).committed = r.committed
      /\ OfToken(r, f, x).status = r.status /\ OfToken(r, f, x).tokens = s
  BY <1>7, <1>8, ReportFields
<1>10. s[n] = e /\ \A i \in 1..(n - 1) : s[i] = r.tokens[i]
  BY <1>3, <1>7
<1> QED BY <1>2, <1>4, <1>7, <1>9, <1>10

(* The last entry of a report with entries. *)
LEMMA LastEntry ==
  ASSUME NEW r \in Report, r.tokens # << >>
  PROVE  r.tokens[Len(r.tokens)] \in TokenEntry /\ Len(r.tokens) \in Nat \ {0}
<1>1. r.tokens \in Seq(TokenEntry)
  BY ReportFields
<1>2. Len(r.tokens) \in 1..Len(r.tokens) /\ Len(r.tokens) \in Nat \ {0}
  BY <1>1, EmptySeq, LenProperties
<1> QED BY <1>1, <1>2, ElementOfSeq

(* The last token is given another status. *)
LEMMA StatusOfToken ==
  ASSUME NEW r, Claims(r), r.tokens # << >>,
         NEW x \in {"running", "checkpoint_complete", "final_ready_not_committed", "complete", "blocked"}
  PROVE  LET q == OfToken(r, "status", x) IN
         /\ Claims(q) /\ q.tokens # << >>
         /\ q.committed = r.committed /\ q.status = r.status /\ Len(q.tokens) = Len(r.tokens)
<1>1. /\ r \in Report /\ r.tokens[Len(r.tokens)] \in TokenEntry /\ Len(r.tokens) \in Nat \ {0}
  BY LastEntry DEF Claims
<1>2. /\ [r.tokens[Len(r.tokens)] EXCEPT !["status"] = x] \in TokenEntry
      /\ [r.tokens[Len(r.tokens)] EXCEPT !["status"] = x].state_committed
           = r.tokens[Len(r.tokens)].state_committed
  BY <1>1 DEF TokenEntry
<1>3. PICK q : q = OfToken(r, "status", x)
  OBVIOUS
<1>4. /\ q \in Report /\ q.committed = r.committed /\ q.status = r.status
      /\ Len(q.tokens) = Len(r.tokens)
      /\ q.tokens[Len(r.tokens)] = [r.tokens[Len(r.tokens)] EXCEPT !["status"] = x]
      /\ \A i \in 1..(Len(r.tokens) - 1) : q.tokens[i] = r.tokens[i]
  BY <1>1, <1>2, <1>3, OfTokenProperties
<1>5. ASSUME NEW i \in 1..Len(q.tokens), q.tokens[i].state_committed
      PROVE  i <= Len(snapshot.committed)
  <2>1. i \in 1..Len(r.tokens) /\ r.tokens[i].state_committed
    <3>1. CASE i = Len(r.tokens)
      BY <1>1, <1>2, <1>4, <1>5, <3>1
    <3>2. CASE i \in 1..(Len(r.tokens) - 1)
      BY <1>1, <1>4, <1>5, <3>2
    <3> QED BY <1>1, <1>4, <3>1, <3>2
  <2> QED BY <2>1 DEF Claims
<1>6. Claims(q)
  BY <1>4, <1>5 DEF Claims
<1>7. q.tokens # << >>
  BY <1>1, <1>4
<1> QED BY <1>3, <1>4, <1>6, <1>7

(* The last token is reported as committed, if it was, or as not committed. *)
LEMMA CommittedOfToken ==
  ASSUME NEW r, Claims(r), r.tokens # << >>,
         NEW x \in BOOLEAN, x => Len(r.tokens) <= Len(snapshot.committed)
  PROVE  LET q == OfToken(r, "state_committed", x) IN
         /\ Claims(q)
         /\ q.committed = r.committed /\ q.status = r.status /\ Len(q.tokens) = Len(r.tokens)
<1>1. /\ r \in Report /\ r.tokens[Len(r.tokens)] \in TokenEntry /\ Len(r.tokens) \in Nat \ {0}
  BY LastEntry DEF Claims
<1>2. /\ [r.tokens[Len(r.tokens)] EXCEPT !["state_committed"] = x] \in TokenEntry
      /\ [r.tokens[Len(r.tokens)] EXCEPT !["state_committed"] = x].state_committed = x
  BY <1>1 DEF TokenEntry
<1>3. PICK q : q = OfToken(r, "state_committed", x)
  OBVIOUS
<1>4. /\ q \in Report /\ q.committed = r.committed /\ q.status = r.status
      /\ Len(q.tokens) = Len(r.tokens)
      /\ q.tokens[Len(r.tokens)] = [r.tokens[Len(r.tokens)] EXCEPT !["state_committed"] = x]
      /\ \A i \in 1..(Len(r.tokens) - 1) : q.tokens[i] = r.tokens[i]
  BY <1>1, <1>2, <1>3, OfTokenProperties
<1>5. ASSUME NEW i \in 1..Len(q.tokens), q.tokens[i].state_committed
      PROVE  i <= Len(snapshot.committed)
  <2>1. CASE i = Len(r.tokens)
    BY <1>2, <1>4, <1>5, <2>1
  <2>2. CASE i \in 1..(Len(r.tokens) - 1)
    BY <1>1, <1>4, <1>5, <2>2 DEF Claims
  <2> QED BY <1>1, <1>4, <2>1, <2>2
<1>6. Claims(q)
  BY <1>4, <1>5 DEF Claims
<1> QED BY <1>3, <1>4, <1>6

(* The report as a whole is given another status, and the tokens of the runtime. *)
LEMMA StatusOfReport ==
  ASSUME NEW r, Claims(r), Runtime,
         NEW x \in {"none", "running", "checkpoint_complete", "complete", "blocked"}
  PROVE  /\ Claims([r EXCEPT !.status = x])
         /\ Claims([r EXCEPT !.committed = snapshot.committed])
         /\ Claims([r EXCEPT !.status = x, !.committed = snapshot.committed])
<1>1. snapshot.committed \in Seq(Tokens) /\ Len(snapshot.committed) \in Nat
  BY LenProperties DEF Runtime
<1>2. r \in Report
  BY DEF Claims
<1>3. ASSUME NEW q \in Report, q.tokens = r.tokens,
             q.committed = r.committed \/ q.committed = snapshot.committed
      PROVE  Claims(q)
  BY <1>1, <1>3 DEF Claims
<1>4. ASSUME NEW q, q = [r EXCEPT !.status = x] \/ q = [r EXCEPT !.committed = snapshot.committed]
                    \/ q = [r EXCEPT !.status = x, !.committed = snapshot.committed]
      PROVE  Claims(q)
  BY <1>1, <1>2, <1>3, <1>4, ReportFields
<1> QED BY <1>4

(* The report is written: at next in the file as well, or the handler goes on. *)
LEMMA SavesFollows ==
  ASSUME ReportFollows, UNCHANGED <<config, snapshot>>, pc # "returned",
         NEW r, NEW next \in {"token", "checkpoint", "returned", "handler"} \cup InToken,
         Saves(r, next), Claims(r), r.committed = snapshot.committed,
         next # "returned" => r.status = "running",
         r.status = "complete" => Len(snapshot.committed) = config.tokens,
         next = "token" => Len(r.tokens) = Len(snapshot.committed),
         next \in InToken \cup {"checkpoint"} => Len(r.tokens) = Len(snapshot.committed) + 1
  PROVE  ReportFollows'
<1>1. /\ report' = r
      /\ \/ disk' = r /\ pc' = next
         \/ disk' = disk /\ pc' = "handler"
  BY DEF Saves
<1>2. Claims(report)' /\ Claims(disk)'
  BY <1>1 DEF ReportFollows, Claims
<1>3. CASE disk' = r /\ pc' = next
  BY <1>1, <1>2, <1>3 DEF ReportFollows, InToken, Fetching
<1>4. CASE disk' = disk /\ pc' = "handler"
  BY <1>1, <1>2, <1>4 DEF ReportFollows, InToken, Fetching
<1> QED BY <1>1, <1>3, <1>4

(* Nothing is reported. *)
LEMMA SilentFollows ==
  ASSUME ReportFollows, UNCHANGED <<config, snapshot, report, disk>>, pc # "returned",
         \/ pc' = "handler"
         \/ pc \in InToken /\ pc' \in InToken
         \/ pc = "boot" /\ pc' = "token"
         \/ pc' = pc
  PROVE  ReportFollows'
<1>1. Claims(report)' /\ Claims(disk)'
  BY DEF ReportFollows, Claims
<1>2. CASE pc' = "handler"
  BY <1>1, <1>2 DEF ReportFollows, InToken, Fetching
<1>3. CASE pc \in InToken /\ pc' \in InToken
  BY <1>1, <1>3 DEF ReportFollows, InToken, Fetching
<1>4. CASE pc = "boot" /\ pc' = "token"
  BY <1>1, <1>4 DEF ReportFollows, InToken, Fetching
<1>5. CASE pc' = pc
  BY <1>1, <1>5 DEF ReportFollows
<1> QED BY <1>2, <1>3, <1>4, <1>5

(* Every step keeps the report in line with the tokens committed. *)
LEMMA ReportStep == Decoding /\ ReportFollows /\ [Next]_vars => ReportFollows'
<1> SUFFICES ASSUME Decoding, ReportFollows, [Next]_vars
             PROVE  ReportFollows'
  OBVIOUS
<1>1. /\ Runtime /\ config.tokens \in 1..2 /\ snapshot.committed \in Seq(Tokens)
      /\ Len(snapshot.committed) \in Nat /\ snapshot.position = Len(snapshot.committed)
      /\ Claims(report) /\ Claims(disk)
  BY LogProperties DEF Decoding, Runtime, ReportFollows
<1>2. CASE Begins
  <2>1. /\ UNCHANGED <<config, snapshot>> /\ report' = BaseReport /\ pc = "begin"
        /\ \/ disk' = BaseReport /\ pc' = "boot"
           \/ disk' = disk /\ pc' = "raised"
    BY <1>2 DEF Begins
  <2>2. /\ BaseReport \in Report /\ BaseReport.committed = << >> /\ BaseReport.tokens = << >>
        /\ BaseReport.status = "running"
    BY ReportFields, EmptySeq DEF BaseReport
  <2>3. snapshot.committed = << >>
    BY <2>1 DEF ReportFollows
  <2>4. Claims(BaseReport)
    BY <2>2, <2>3 DEF Claims
  <2>5. Claims(report)' /\ Claims(disk)'
    BY <1>1, <2>1, <2>4 DEF Claims
  <2>6. CASE pc' = "boot" /\ disk' = BaseReport
    BY <2>1, <2>2, <2>3, <2>5, <2>6 DEF ReportFollows, InToken, Fetching
  <2>7. CASE pc' = "raised" /\ disk' = disk
    BY <2>1, <2>2, <2>3, <2>5, <2>7 DEF ReportFollows, InToken, Fetching
  <2> QED BY <2>1, <2>6, <2>7
(* The report as it is, from one point of a token to the next. *)
<1>3. ASSUME NEW next \in InToken \cup {"handler", "checkpoint"}, Saves(report, next),
             UNCHANGED <<config, snapshot>>, pc \in InToken
      PROVE  ReportFollows'
  <2>1. /\ report.committed = snapshot.committed /\ report.status = "running" /\ pc # "returned"
        /\ Len(report.tokens) = Len(snapshot.committed) + 1
    BY <1>3 DEF ReportFollows, InToken, Fetching
  <2> QED BY <1>1, <1>3, <2>1, SavesFollows DEF InToken, Fetching
<1>4. ASSUME Raises, UNCHANGED <<config, snapshot>>, pc \in InToken
      PROVE  ReportFollows'
  BY <1>4, SilentFollows DEF Raises, InToken, Fetching
<1>5. CASE Boots
  BY <1>5, SilentFollows DEF Boots
<1>6. CASE TokenStarts
  <2>1. PICK r : r = [report EXCEPT !.tokens = Append(report.tokens, TokenReport)]
    OBVIOUS
  <2>2. /\ UNCHANGED <<config, snapshot>> /\ Saves(r, "embedding") /\ pc = "token"
    BY <1>6, <2>1 DEF TokenStarts
  <2>3. /\ Len(report.tokens) = Len(snapshot.committed) /\ report.committed = snapshot.committed
        /\ report.status = "running"
    BY <2>2 DEF ReportFollows
  <2>4. report \in Report /\ report.tokens \in Seq(TokenEntry) /\ TokenReport \in TokenEntry
        /\ TokenReport.state_committed = FALSE
    BY <1>1, ReportFields DEF Claims, TokenReport, TokenEntry
  <2>5. PICK s : s = Append(report.tokens, TokenReport)
    OBVIOUS
  <2>6. /\ s \in Seq(TokenEntry) /\ Len(s) = Len(report.tokens) + 1
        /\ s[Len(report.tokens) + 1] = TokenReport
        /\ \A i \in 1..Len(report.tokens) : s[i] = report.tokens[i]
    BY <2>4, <2>5, AppendProperties
  <2>7. /\ r \in Report /\ r.tokens = s /\ r.committed = report.committed /\ r.status = report.status
    BY <2>1, <2>4, <2>5, <2>6, ReportFields
  <2>8. ASSUME NEW i \in 1..Len(r.tokens), r.tokens[i].state_committed
        PROVE  i <= Len(snapshot.committed)
    <3>1. i # Len(report.tokens) + 1
      BY <2>4, <2>6, <2>7, <2>8
    <3> QED BY <1>1, <2>3, <2>6, <2>7, <3>1
  <2>9. Claims(r)
    BY <1>1, <2>7, <2>8 DEF Claims
  <2> QED BY <1>1, <2>2, <2>3, <2>6, <2>7, <2>9, SavesFollows DEF InToken
<1>7. CASE Embeds
  BY <1>3, <1>4, <1>7 DEF Embeds, InToken
<1>8. CASE Routes
  BY <1>3, <1>4, <1>8 DEF Routes, Attended, InToken, Fetching
<1>9. CASE Plans
  <2>1. UNCHANGED <<config, snapshot>> /\ pc = "prefetch"
    BY <1>9 DEF Plans
  <2>2. \E next \in {"pool", "routed"} :
          \/ pc' = next /\ UNCHANGED <<report, disk>>
          \/ Saves(report, next)
    BY <1>9 DEF Plans
  <2>3. ASSUME NEW next \in {"pool", "routed"}, pc' = next, UNCHANGED <<report, disk>>
        PROVE  ReportFollows'
    BY <2>1, <2>3, SilentFollows DEF InToken, Fetching
  <2> QED BY <1>3, <2>1, <2>2, <2>3 DEF InToken, Fetching
<1>10. CASE PoolSucceeds \/ (\E r \in Futures : PoolFails(r) \/ Worker(r)) \/ FetchesRouted
  <2>1. UNCHANGED <<config, snapshot, report, disk>>
    BY <1>10 DEF PoolSucceeds, PoolFails, Worker, PoolBegins, PoolEnds, FetchesRouted
  <2>2. \/ UNCHANGED pc
        \/ pc \in {"pool", "routed"} /\ pc' \in {"routed", "drain", "finish"}
    <3>1. ASSUME NEW r, Worker(r)
          PROVE  UNCHANGED pc
      BY <3>1 DEF Worker, PoolBegins, PoolEnds
    <3>2. ASSUME NEW r, PoolFails(r)
          PROVE  pc = "pool" /\ pc' = "drain"
      BY <3>2 DEF PoolFails
    <3> QED BY <1>10, <3>1, <3>2 DEF PoolSucceeds, FetchesRouted
  <2>3. CASE UNCHANGED pc
    <3>1. Claims(report)' /\ Claims(disk)'
      BY <1>1, <2>1 DEF Claims
    <3> QED BY <2>1, <2>3, <3>1 DEF ReportFollows
  <2> QED BY <2>1, <2>2, <2>3, SilentFollows DEF InToken, Fetching
<1>11. CASE PoolRaises \/ FetchRaises
  BY <1>4, <1>11 DEF PoolRaises, FetchRaises, InToken, Fetching
<1>12. CASE Retry
  <2>1. UNCHANGED <<config, snapshot>> /\ pc \in InToken
        /\ (Saves(report, "handler") \/ Saves(report, "prefetch"))
    BY <1>12 DEF Retry, Retries, InToken, Fetching
  <2> QED BY <1>3, <2>1 DEF InToken, Fetching
<1>13. CASE FinishesLayer
  <2>1. UNCHANGED <<config, snapshot>> /\ pc \in InToken
        /\ (Raises \/ \E next \in {"checkpoint", "final", "base"} : Saves(report, next))
    BY <1>13 DEF FinishesLayer, InToken
  <2> QED BY <1>3, <1>4, <2>1 DEF InToken
<1>14. CASE Checkpoint
  <2>1. PICK q : q = OfToken(report, "status", "checkpoint_complete")
    OBVIOUS
  <2>2. UNCHANGED <<config, snapshot>> /\ pc = "checkpoint"
        /\ Saves([q EXCEPT !.status = "checkpoint_complete"], "returned")
    BY <1>14, <2>1 DEF Checkpoint
  <2>3. Len(report.tokens) = Len(snapshot.committed) + 1 /\ report.committed = snapshot.committed
    BY <2>2 DEF ReportFollows
  <2>4. report.tokens # << >>
    BY <1>1, <2>3
  <2>5. Claims(q) /\ q.committed = report.committed
    BY <1>1, <2>1, <2>4, StatusOfToken
  <2>6. PICK r : r = [q EXCEPT !.status = "checkpoint_complete"]
    OBVIOUS
  <2>7. Claims(r)
    BY <1>1, <2>5, <2>6, StatusOfReport
  <2>8. r.committed = snapshot.committed /\ r.status = "checkpoint_complete"
    BY <2>3, <2>5, <2>6 DEF Claims, Report
  <2> QED BY <2>2, <2>6, <2>7, <2>8, SavesFollows DEF InToken, Fetching
<1>15. CASE Finals
  <2>1. PICK r : r = FinalReport(report)
    OBVIOUS
  <2>2. UNCHANGED <<config, snapshot>> /\ pc = "final" /\ (Raises \/ Saves(r, "commit"))
    BY <1>15, <2>1 DEF Finals
  <2>3. Len(report.tokens) = Len(snapshot.committed) + 1 /\ report.committed = snapshot.committed
        /\ report.status = "running"
    BY <2>2 DEF ReportFollows, InToken
  <2>4. report.tokens # << >>
    BY <1>1, <2>3
  <2>5. Claims(r) /\ r.committed = report.committed /\ r.status = report.status
        /\ Len(r.tokens) = Len(report.tokens)
    BY <1>1, <2>1, <2>4, StatusOfToken DEF FinalReport
  <2>6. CASE Saves(r, "commit")
    BY <2>2, <2>3, <2>5, <2>6, SavesFollows DEF InToken, Fetching
  <2> QED BY <1>4, <2>2, <2>6 DEF InToken
<1>16. CASE Commits
  <2>1. CASE snapshot' = snapshot
    <3>1. pc = "commit" /\ UNCHANGED config
      BY <1>16 DEF Commits
    <3>2. CASE Raises
      BY <1>4, <2>1, <3>1, <3>2 DEF InToken
    <3>3. CASE Covers /\ snapshot'.position = snapshot.position + 1
      BY <1>1, <2>1, <3>3
    <3> QED BY <1>16, <3>2, <3>3 DEF Commits
  <2>2. CASE snapshot' # snapshot
    <3>1. /\ pc = "commit" /\ pc' = "report" /\ UNCHANGED <<config, report, disk>>
          /\ snapshot'.committed = Append(snapshot.committed, Native(Log)) /\ Requested
      BY <1>16, <2>2, CommitsToken DEF Commits, Raises, Decoding, InHand, InToken
    <3>2. Native(Log) \in Tokens
      BY <3>1, LogProperties DEF Decoding
    <3>3. /\ Len(snapshot'.committed) = Len(snapshot.committed) + 1
          /\ \A i \in 1..Len(snapshot.committed) : snapshot'.committed[i] = snapshot.committed[i]
      BY <1>1, <3>1, <3>2, AppendProperties
    <3>4. ASSUME NEW r \in Report, Claims(r), Len(r.committed) \in Nat
          PROVE  /\ Len(r.committed) <= Len(snapshot'.committed)
                 /\ \A i \in 1..Len(r.committed) : r.committed[i] = snapshot'.committed[i]
                 /\ \A i \in 1..Len(r.tokens) :
                      r.tokens[i].state_committed => i <= Len(snapshot'.committed)
      <4>1. Len(r.tokens) \in Nat
        BY ReportFields, LenProperties
      <4>2. Len(r.committed) <= Len(snapshot.committed)
            /\ \A i \in 1..Len(r.committed) :
                 i \in 1..Len(snapshot.committed) /\ r.committed[i] = snapshot.committed[i]
        BY <1>1, <3>4 DEF Claims
      <4>3. \A i \in 1..Len(r.tokens) : r.tokens[i].state_committed => i <= Len(snapshot.committed)
        BY <3>4 DEF Claims
      <4>4. \A i \in 1..Len(r.tokens) :
              i <= Len(snapshot.committed) => i <= Len(snapshot'.committed)
        BY <1>1, <3>3, <4>1
      <4>5. Len(r.committed) <= Len(snapshot'.committed)
        BY <1>1, <3>3, <3>4, <4>2
      <4> QED BY <3>3, <4>2, <4>3, <4>4, <4>5
    <3>5. Claims(report)' /\ Claims(disk)'
      <4>1. report \in Report /\ disk \in Report /\ Len(report.committed) \in Nat
            /\ Len(disk.committed) \in Nat
        BY <1>1, ReportFields, LenProperties DEF Claims
      <4> QED BY <1>1, <3>1, <3>4, <4>1 DEF Claims
    <3>6. Len(report.tokens) = Len(snapshot.committed) + 1 /\ report.status = "running"
          /\ disk.status \in {"none", "running"}
      BY <3>1 DEF ReportFollows, InToken
    <3> QED BY <3>1, <3>3, <3>5, <3>6 DEF ReportFollows, InToken, Fetching
  <2> QED BY <2>1, <2>2
<1>17. CASE Reports
  <2>1. PICK q : q = OfToken(report, "status", "complete")
    OBVIOUS
  <2>2. PICK p : p = OfToken(q, "state_committed", TRUE)
    OBVIOUS
  <2>3. PICK r : r = [p EXCEPT !.committed = snapshot.committed]
    OBVIOUS
  <2>4. UNCHANGED <<config, snapshot>> /\ pc = "report" /\ Saves(r, "token")
    BY <1>17, <2>1, <2>2, <2>3 DEF Reports
  <2>5. Len(report.tokens) = Len(snapshot.committed) /\ report.status = "running"
    BY <2>4 DEF ReportFollows
  <2>6. CASE report.tokens # << >>
    <3>1. Claims(q) /\ q.status = "running" /\ Len(q.tokens) = Len(snapshot.committed) /\ q.tokens # << >>
      BY <1>1, <2>1, <2>5, <2>6, StatusOfToken
    <3>5. Len(q.tokens) <= Len(snapshot.committed)
      BY <1>1, <3>1
    <3>6. /\ Claims(p) /\ p.status = q.status /\ Len(p.tokens) = Len(q.tokens)
      BY <2>2, <3>1, <3>5, CommittedOfToken
    <3>2. Claims(p) /\ p.status = "running" /\ Len(p.tokens) = Len(snapshot.committed)
      BY <3>1, <3>6
    <3>3. Claims(r)
      BY <1>1, <2>3, <3>2, StatusOfReport
    <3>4. r.status = "running" /\ Len(r.tokens) = Len(snapshot.committed) /\ r.committed = snapshot.committed
      BY <2>3, <3>2 DEF Claims, Report
    <3> QED BY <2>4, <3>3, <3>4, SavesFollows DEF InToken, Fetching
  <2>7. report.tokens # << >>
    BY <2>4, <2>5 DEF ReportFollows
  <2> QED BY <2>6, <2>7
<1>18. CASE Completes
  <2>1. PICK r : r = [report EXCEPT !.status = "complete"]
    OBVIOUS
  <2>2. UNCHANGED <<config, snapshot>> /\ pc = "token" /\ Saves(r, "returned") /\ ~Requested
    BY <1>18, <2>1 DEF Completes
  <2>3. report.committed = snapshot.committed
    BY <2>2 DEF ReportFollows
  <2>4. Claims(r)
    BY <1>1, <2>1, StatusOfReport
  <2>5. r.committed = snapshot.committed
    BY <1>1, <2>1, <2>3 DEF Claims, Report
  <2>6. Len(snapshot.committed) = config.tokens
    BY <1>1, <2>2 DEF Requested, Runtime
  <2> QED BY <2>2, <2>4, <2>5, <2>6, SavesFollows DEF InToken, Fetching
<1>19. CASE Handles
  <2>1. PICK q : q = OfToken(report, "status", "blocked")
    OBVIOUS
  <2>2. PICK p : p = IF report.tokens = << >> THEN report ELSE OfToken(q, "state_committed", FALSE)
    OBVIOUS
  <2>3. Claims(p)
    <3>1. CASE report.tokens # << >>
      <4>1. Claims(q) /\ q.tokens # << >>
        BY <1>1, <2>1, <3>1, StatusOfToken
      <4>2. Claims(OfToken(q, "state_committed", FALSE))
        BY <4>1, CommittedOfToken
      <4> QED BY <2>2, <3>1, <4>2
    <3> QED BY <1>1, <2>2, <3>1
  <2>4. Blocked(report) = [p EXCEPT !.status = "blocked", !.committed = snapshot.committed]
    BY <2>1, <2>2 DEF Blocked
  <2>5. /\ Claims(Blocked(report)) /\ Blocked(report).status = "blocked"
        /\ Blocked(report).committed = snapshot.committed
    <3>1. Claims([p EXCEPT !.status = "blocked", !.committed = snapshot.committed])
      BY <1>1, <2>3, StatusOfReport
    <3> QED BY <2>3, <2>4, <3>1 DEF Claims, Report
  <2>6. /\ UNCHANGED <<config, snapshot>> /\ pc = "handler" /\ report' = Blocked(report)
        /\ \/ disk' = report' /\ pc' = "returned"
           \/ disk' = disk /\ pc' = "raised"
    BY <1>19 DEF Handles
  <2>7. Claims(report)' /\ Claims(disk)'
    BY <1>1, <2>5, <2>6 DEF Claims
  <2>8. disk.status \in {"none", "running"}
    BY <2>6 DEF ReportFollows
  <2> QED BY <2>5, <2>6, <2>7, <2>8 DEF ReportFollows, InToken, Fetching
<1>20. CASE UNCHANGED vars
  <2>1. UNCHANGED <<config, snapshot, report, disk, pc>>
    BY <1>20 DEF vars
  <2>2. Claims(report)' /\ Claims(disk)'
    BY <1>1, <2>1 DEF Claims
  <2> QED BY <2>1, <2>2 DEF ReportFollows
<1> QED
  BY <1>2, <1>5, <1>6, <1>7, <1>8, <1>9, <1>10, <1>11, <1>12, <1>13, <1>14, <1>15, <1>16,
     <1>17, <1>18, <1>19, <1>20 DEF Next, Main

-----------------------------------------------------------------------------
(* The pool: proofs *)

(* A fetch receives more than was asked for only if it breaks the contract. *)
LEMMA AnswersAreAnswers ==
  ASSUME NEW r, NEW a \in Answers(r) \cup Transfers
  PROVE  /\ a.received \in Nat /\ a.kind \in Finished
         /\ a.received > 1 => a.kind = "contract"
<1>1. ASSUME NEW kind \in Finished, NEW received \in Nat, received > 1 => kind = "contract",
             a = Answer(kind, received)
      PROVE  /\ a.received \in Nat /\ a.kind \in Finished
             /\ a.received > 1 => a.kind = "contract"
  BY <1>1 DEF Answer
<1>2. CASE a \in Transfers
  BY <1>1, <1>2 DEF Transfers, Finished, Errors, Broken
<1>3. CASE a \in Answers(r)
  <2>1. a \in {Answer("ok", 0), Answer("contract", 0)} \cup {Answer("refused", 0)} \cup Transfers
    BY <1>3 DEF Answers
  <2> QED BY <1>1, <1>2, <2>1 DEF Finished, Errors, Broken
<1> QED BY <1>2, <1>3

(* A range that a transfer has ended for is on disk, in parts on disk, or not. *)
LEMMA SettledFields ==
  ASSUME PoolFollows, NEW r, NEW a, a.received \in Nat
  PROVE  LET c == Settled(cache, r, a) IN
         /\ c = [have |-> c.have, part |-> c.part, used |-> c.used, reserved |-> c.reserved]
         /\ c.reserved = cache.reserved /\ c.used = cache.used + a.received /\ c.used \in Nat
         /\ \A q : q # r => (q \in c.part <=> q \in cache.part)
         /\ a.kind = "ok" => c.part = cache.part \ {r}
<1>1. cache = [have |-> cache.have, part |-> cache.part, used |-> cache.used,
               reserved |-> cache.reserved] /\ cache.used \in Nat
  BY DEF PoolFollows
<1>2. PICK h : h = IF a.kind = "ok" THEN cache.have \cup {r} ELSE cache.have
  OBVIOUS
<1>3. PICK p : p = CASE a.kind = "ok" -> cache.part \ {r}
                     [] a.kind = "transport" /\ a.received = 1 -> cache.part \cup {r}
                     [] OTHER -> cache.part
  OBVIOUS
<1>4. Settled(cache, r, a) = [cache EXCEPT !.have = h, !.part = p, !.used = cache.used + a.received]
  BY <1>2, <1>3 DEF Settled
<1>5. /\ \A q : q # r => (q \in p <=> q \in cache.part)
      /\ a.kind = "ok" => p = cache.part \ {r}
  BY <1>3
<1>6. PICK c : c = Settled(cache, r, a)
  OBVIOUS
<1>7. /\ c = [have |-> h, part |-> p, used |-> cache.used + a.received, reserved |-> cache.reserved]
  BY <1>1, <1>4, <1>6
<1>8. cache.used + a.received \in Nat
  BY <1>1
<1> HIDE <1>3
<1>9. c.part = p /\ c.reserved = cache.reserved /\ c.used = cache.used + a.received
      /\ c = [have |-> c.have, part |-> c.part, used |-> c.used, reserved |-> c.reserved]
  BY <1>7
<1> QED BY <1>5, <1>6, <1>8, <1>9

(* A layer routes finitely many ranges. *)
LEMMA RouteIsFinite ==
  ASSUME Decoding
  PROVE  IsFiniteSet(Routed)
<1>1. IsFiniteSet(session.route)
  BY DecoderAssumption, FS_Subset DEF Decoding, SessionFollows
<1>2. PICK f : f = [e \in session.route |-> Expert(session.layer, e)]
  OBVIOUS
<1>3. f \in Surjection(session.route, Routed)
  BY <1>2 DEF Surjection, Routed
<1> QED BY <1>1, <1>3, FS_Surjection

(* Outside the pool no range is queued, running or reserved. *)
LEMMA NoneReserved ==
  ASSUME PoolFollows, pc \notin {"pool", "drain"} \/ Drained
  PROVE  cache.reserved = 0 /\ Queued = {} /\ Running = {}
<1>1. Queued = {} /\ Running = {}
  BY DEF PoolFollows, Drained, Queued, Running, InPhase
<1> QED BY <1>1, FS_EmptySet DEF PoolFollows

(* A step of the main thread before or after a pool. *)
LEMMA OutsidePool ==
  ASSUME PoolFollows, ParallelIsAffordable, UNCHANGED <<config, pool>>,
         pc \notin {"pool", "drain"} \/ Drained, pc' \notin {"pool", "drain"},
         cache' = cache \/ \E r, kinds : Fetches(r, kinds)
  PROVE  PoolFollows' /\ RoomForAll' /\ ParallelIsAffordable'
<1>1. cache.reserved = 0 /\ Queued = {} /\ Running = {} /\ Queued' = {} /\ Running' = {}
  BY NoneReserved DEF Queued, Running, InPhase, Futures
<1>2. Futures' = Futures /\ ParallelIsAffordable'
  BY DEF Futures, ParallelIsAffordable, InPhase
<1>3. cache' = [have |-> cache'.have, part |-> cache'.part, used |-> cache'.used,
                reserved |-> cache'.reserved] /\ cache'.used \in Nat
      /\ cache'.reserved = cache.reserved
  <2>1. ASSUME NEW r, NEW kinds, Fetches(r, kinds)
        PROVE  cache' = [have |-> cache'.have, part |-> cache'.part, used |-> cache'.used,
                         reserved |-> cache'.reserved] /\ cache'.used \in Nat
               /\ cache'.reserved = cache.reserved
    <3>1. PICK a \in Answers(r) : cache' = Settled(cache, r, a)
      BY <2>1 DEF Fetches
    <3>2. a.received \in Nat
      BY AnswersAreAnswers
    <3> QED BY <3>1, <3>2, SettledFields
  <2> QED BY <2>1 DEF PoolFollows
<1>4. Cardinality(Running' \ cache'.part) = 0
  <2>1. Running' \ cache'.part = {}
    BY <1>1
  <2> QED BY <2>1, FS_EmptySet
<1>5. PoolFollows'
  BY <1>1, <1>2, <1>3, <1>4 DEF PoolFollows
<1> QED BY <1>2, <1>5 DEF RoomForAll

(* One future goes on to another phase. *)
LEMMA PhaseMoves ==
  ASSUME NEW r \in Futures, NEW x, pool' = [pool EXCEPT ![r] = x], NEW P
  PROVE  /\ Futures' = Futures
         /\ \A q \in Futures : pool'[q] = IF q = r THEN x ELSE pool[q]
         /\ InPhase(P)' = IF x \in P THEN InPhase(P) \cup {r} ELSE InPhase(P) \ {r}
BY DEF InPhase, Futures

(* A worker that begins a fetch keeps the budget sufficient for the rest. *)
LEMMA BeginsInPool ==
  ASSUME Decoding, PoolFollows, RoomForAll, ParallelIsAffordable,
         NEW r \in Futures, PoolBegins(r)
  PROVE  PoolFollows' /\ RoomForAll' /\ ParallelIsAffordable'
<1>1. /\ UNCHANGED <<config, pc, session>> /\ r \in Queued /\ r \notin Running
      /\ Futures' = Futures /\ Routed' = Routed
  BY PhaseMoves DEF PoolBegins, Queued, Running, InPhase, Routed
<1>2. /\ pc = "pool" /\ config.allow /\ Futures = Routed /\ IsFiniteSet(Futures)
      /\ config.budget \in Nat /\ cache.used \in Nat
      /\ cache.reserved = Cardinality(Running \ cache.part)
  BY <1>1, DecoderAssumption DEF PoolFollows, Decoding, Config
<1>3. IsFiniteSet(Queued) /\ IsFiniteSet(Running) /\ IsFiniteSet(Running \ cache.part)
  BY <1>2, FS_Subset DEF Queued, Running, InPhase
<1>4. /\ Cardinality(Queued) \in Nat /\ cache.reserved \in Nat
      /\ Cardinality(Queued \ {r}) = Cardinality(Queued) - 1
      /\ Cardinality(Queued \ {r}) \in Nat
  <2>1. IsFiniteSet(Queued \ {r}) /\ Cardinality(Queued \ {r}) = Cardinality(Queued) - 1
    BY <1>1, <1>3, FS_RemoveElement
  <2> QED BY <1>2, <1>3, <2>1, FS_CardinalityType
<1>5. Remaining(r) \in 0..1
  BY DEF Remaining
<1>6. CASE pool' = [pool EXCEPT ![r] = "running"]
           /\ cache' = [cache EXCEPT !.reserved = cache.reserved + Remaining(r)]
  <2>0. \A P : InPhase(P)' = IF "running" \in P THEN InPhase(P) \cup {r} ELSE InPhase(P) \ {r}
    BY <1>6, PhaseMoves
  <2>1. /\ Queued' = Queued \ {r} /\ Running' = Running \cup {r}
    BY <2>0 DEF Queued, Running
  <2>2. InPhase({"contract"})' = InPhase({"contract"}) /\ InPhase({"refused"})' = InPhase({"refused"})
    <3>1. r \notin InPhase({"contract"}) /\ r \notin InPhase({"refused"})
      BY <1>1 DEF Queued, InPhase
    <3> QED BY <2>0, <3>1
  <2>3. /\ cache' = [have |-> cache'.have, part |-> cache'.part, used |-> cache'.used,
                     reserved |-> cache'.reserved]
        /\ cache'.used = cache.used /\ cache'.part = cache.part
        /\ cache'.reserved = cache.reserved + Remaining(r)
    BY <1>6 DEF PoolFollows
  <2>4. Cardinality(Running' \ cache.part) = cache.reserved + Remaining(r)
    <3>1. CASE r \in cache.part
      <4>1. Running' \ cache.part = Running \ cache.part
        BY <2>1, <3>1
      <4> QED BY <1>2, <1>4, <3>1, <4>1 DEF Remaining
    <3>2. CASE r \notin cache.part
      <4>1. Running' \ cache.part = (Running \ cache.part) \cup {r}
        BY <2>1, <3>2
      <4>2. Cardinality((Running \ cache.part) \cup {r}) = Cardinality(Running \ cache.part) + 1
        BY <1>1, <1>3, FS_AddElement
      <4> QED BY <1>2, <3>2, <4>1, <4>2 DEF Remaining
    <3> QED BY <3>1, <3>2
  <2>5. \A q \in Futures' : pool'[q] \in Finished \cup {"queued", "running", "cancelled"}
    BY <1>1, <1>6, PhaseMoves DEF PoolFollows
  <2>6. PoolFollows'
    BY <1>1, <1>2, <2>3, <2>4, <2>5 DEF PoolFollows
  <2>7. RoomForAll'
    <3>1. SUFFICES ASSUME InPhase({"contract"})' = {}
                   PROVE  cache'.used + cache'.reserved + Cardinality(Queued') <= config.budget
      BY <1>1 DEF RoomForAll
    <3>2. cache.used + cache.reserved + Cardinality(Queued) <= config.budget
      BY <1>2, <2>2, <3>1 DEF RoomForAll
    <3> QED BY <1>2, <1>4, <1>5, <2>1, <2>3, <3>2
  <2>8. ParallelIsAffordable'
    BY <2>2 DEF ParallelIsAffordable
  <2> QED BY <2>6, <2>7, <2>8
<1>7. ASSUME NEW a \in Answers(r), pool' = [pool EXCEPT ![r] = a.kind], UNCHANGED cache
      PROVE  PoolFollows' /\ RoomForAll' /\ ParallelIsAffordable'
  <2>1. a.kind \in Finished
    BY AnswersAreAnswers
  <2>2. /\ Queued' = Queued \ {r} /\ Running' = Running \ {r}
        /\ \A P : InPhase(P)' = IF a.kind \in P THEN InPhase(P) \cup {r} ELSE InPhase(P) \ {r}
    <3>1. /\ Queued' = IF a.kind \in {"queued"} THEN Queued \cup {r} ELSE Queued \ {r}
          /\ Running' = IF a.kind \in {"running"} THEN Running \cup {r} ELSE Running \ {r}
      BY <1>7, PhaseMoves DEF Queued, Running
    <3> QED BY <1>7, <2>1, <3>1, PhaseMoves, ZenonT(60) DEF Finished, Errors, Broken
  <2>3. Running' = Running
    BY <1>1, <2>2
  <2>4. \A q \in Futures' : pool'[q] \in Finished \cup {"queued", "running", "cancelled"}
    BY <1>1, <1>7, <2>1, PhaseMoves DEF PoolFollows
  <2>5. PoolFollows'
    BY <1>1, <1>2, <1>7, <2>3, <2>4 DEF PoolFollows
  <2>6. /\ InPhase({"contract"})' = {} => InPhase({"contract"}) = {}
        /\ a.kind # "refused" => InPhase({"refused"})' = InPhase({"refused"})
    <3>1. r \notin InPhase({"contract"}) /\ r \notin InPhase({"refused"})
      BY <1>1 DEF Queued, InPhase
    <3> QED BY <2>2, <3>1
  <2>7. ASSUME InPhase({"contract"})' = {}
        PROVE  cache.used + cache.reserved + Cardinality(Queued) <= config.budget
    <3>1. InPhase({"contract"}) = {}
      BY <2>6, <2>7
    <3> QED BY <1>2, <3>1 DEF RoomForAll
  <2>8. RoomForAll'
    <3>1. SUFFICES ASSUME InPhase({"contract"})' = {}
                   PROVE  cache.used + cache.reserved + Cardinality(Queued \ {r}) <= config.budget
      BY <1>1, <1>7, <2>2 DEF RoomForAll
    <3> QED BY <1>2, <1>4, <2>7, <3>1
  <2>9. ParallelIsAffordable'
    <3>1. CASE a.kind # "refused"
      <4>1. InPhase({"refused"})' = InPhase({"refused"})
            /\ (InPhase({"contract"})' = {} => InPhase({"contract"}) = {})
        BY <2>6, <3>1
      <4> QED BY <4>1 DEF ParallelIsAffordable
    <3>2. CASE a.kind = "refused"
      <4>1. ~Permitted(r)
        BY <1>7, <3>2 DEF Answers, Answer, Transfers
      <4>2. ~(cache.used + cache.reserved + Cardinality(Queued) <= config.budget)
        <5>1. ~(cache.used + cache.reserved + Remaining(r) <= config.budget)
          BY <1>2, <4>1 DEF Permitted
        <5> QED BY <1>2, <1>4, <1>5, <5>1
      <4> QED BY <2>7, <4>2 DEF ParallelIsAffordable
    <3> QED BY <3>1, <3>2
  <2> QED BY <2>5, <2>8, <2>9
<1> QED BY <1>6, <1>7 DEF PoolBegins

(* A worker that ends a fetch keeps the budget sufficient for the rest. *)
LEMMA EndsInPool ==
  ASSUME Decoding, PoolFollows, RoomForAll, ParallelIsAffordable,
         NEW r \in Futures, PoolEnds(r)
  PROVE  PoolFollows' /\ RoomForAll' /\ ParallelIsAffordable'
<1>1. PICK a \in IF r \in cache.part THEN {Answer("ok", 0)} ELSE Transfers :
        /\ pool' = [pool EXCEPT ![r] = a.kind]
        /\ cache' = [Settled(cache, r, a) EXCEPT !.reserved = @ - Remaining(r)]
  BY DEF PoolEnds
<1>2. /\ a.received \in Nat /\ a.kind \in Finished /\ a.kind # "refused"
      /\ a.received > 1 => a.kind = "contract"
      /\ r \in cache.part => a.received = 0
  BY <1>1 DEF Answer, Transfers, Finished, Errors, Broken
<1>3. /\ UNCHANGED <<config, pc, session>> /\ r \in Running /\ r \notin Queued
      /\ Futures' = Futures /\ Routed' = Routed
  <2>1. UNCHANGED <<config, pc, session>> /\ pool[r] = "running"
    BY DEF PoolEnds
  <2>2. Futures' = Futures
    BY <1>1, PhaseMoves
  <2> QED BY <2>1, <2>2 DEF Queued, Running, InPhase, Routed
<1>4. /\ pc \in {"pool", "drain"} /\ config.allow /\ Futures = Routed /\ IsFiniteSet(Futures)
      /\ config.budget \in Nat /\ cache.used \in Nat
      /\ cache.reserved = Cardinality(Running \ cache.part)
  BY <1>3, DecoderAssumption DEF PoolFollows, Decoding, Config
<1>5. IsFiniteSet(Queued) /\ IsFiniteSet(Running) /\ IsFiniteSet(Running \ cache.part)
  BY <1>4, FS_Subset DEF Queued, Running, InPhase
<1>6. Cardinality(Queued) \in Nat /\ cache.reserved \in Nat
  BY <1>4, <1>5, FS_CardinalityType
<1>7. /\ Queued' = Queued /\ Running' = Running \ {r}
      /\ InPhase({"contract"}) \subseteq InPhase({"contract"})'
      /\ a.kind = "contract" => InPhase({"contract"})' # {}
      /\ InPhase({"refused"})' = InPhase({"refused"})
  <2>1. /\ Queued' = IF a.kind \in {"queued"} THEN Queued \cup {r} ELSE Queued \ {r}
        /\ Running' = IF a.kind \in {"running"} THEN Running \cup {r} ELSE Running \ {r}
    BY <1>1, PhaseMoves DEF Queued, Running
  <2>2. \A P : InPhase(P)' = IF a.kind \in P THEN InPhase(P) \cup {r} ELSE InPhase(P) \ {r}
    BY <1>1, PhaseMoves
  <2>3. r \notin InPhase({"contract"}) /\ r \notin InPhase({"refused"})
    BY <1>3 DEF Running, InPhase
  <2> QED BY <1>2, <1>3, <2>1, <2>2, <2>3 DEF Finished, Errors, Broken
<1>8. /\ cache' = [have |-> cache'.have, part |-> cache'.part, used |-> cache'.used,
                   reserved |-> cache'.reserved]
      /\ cache'.used = cache.used + a.received
      /\ cache'.reserved = cache.reserved - Remaining(r)
      /\ \A q : q # r => (q \in cache'.part <=> q \in cache.part)
  <2>1. PICK c : c = Settled(cache, r, a)
    OBVIOUS
  <2>2. /\ c = [have |-> c.have, part |-> c.part, used |-> c.used, reserved |-> c.reserved]
        /\ c.reserved = cache.reserved /\ c.used = cache.used + a.received
        /\ \A q : q # r => (q \in c.part <=> q \in cache.part)
    BY <1>2, <2>1, SettledFields
  <2>3. cache' = [have |-> c.have, part |-> c.part, used |-> c.used,
                  reserved |-> c.reserved - Remaining(r)]
    BY <1>1, <2>1, <2>2
  <2> QED BY <2>2, <2>3
<1>9. Cardinality(Running' \ cache'.part) = cache'.reserved
  <2>1. Running' \ cache'.part = (Running \ cache.part) \ {r}
    BY <1>7, <1>8
  <2>2. CASE r \in cache.part
    <3>1. (Running \ cache.part) \ {r} = Running \ cache.part
      BY <2>2
    <3>2. cache'.reserved = cache.reserved
      BY <1>6, <1>8, <2>2 DEF Remaining
    <3> QED BY <1>4, <2>1, <3>1, <3>2
  <2>3. CASE r \notin cache.part
    <3>1. Cardinality((Running \ cache.part) \ {r}) = Cardinality(Running \ cache.part) - 1
      BY <1>3, <1>5, <2>3, FS_RemoveElement
    <3> QED BY <1>4, <1>8, <2>1, <2>3, <3>1 DEF Remaining
  <2> QED BY <2>2, <2>3
<1>10. PoolFollows'
  <2>1. \A q \in Futures' : pool'[q] \in Finished \cup {"queued", "running", "cancelled"}
    BY <1>1, <1>2, <1>3, PhaseMoves DEF PoolFollows
  <2>2. cache'.used \in Nat
    BY <1>2, <1>4, <1>8
  <2>3. pc' = "drain" => Queued' = {}
    BY <1>3, <1>7 DEF PoolFollows
  <2> QED BY <1>3, <1>4, <1>8, <1>9, <2>1, <2>2, <2>3 DEF PoolFollows
<1>11. RoomForAll'
  <2>1. SUFFICES ASSUME InPhase({"contract"})' = {}
                 PROVE  cache'.used + cache'.reserved + Cardinality(Queued') <= config.budget
    BY <1>3 DEF RoomForAll
  <2>2. cache.used + cache.reserved + Cardinality(Queued) <= config.budget
    BY <1>4, <1>7, <2>1 DEF RoomForAll
  <2>3. a.received <= Remaining(r) /\ Remaining(r) \in Nat
    BY <1>2, <1>7, <2>1 DEF Remaining
  <2> QED BY <1>2, <1>4, <1>6, <1>7, <1>8, <2>2, <2>3
<1>12. ParallelIsAffordable'
  BY <1>7 DEF ParallelIsAffordable
<1> QED BY <1>10, <1>11, <1>12

(* Every step keeps what is known of the pool of workers. *)
LEMMA PoolStep ==
  /\ Decoding /\ PoolFollows /\ RoomForAll /\ ParallelIsAffordable
  /\ [Next]_vars
  => PoolFollows' /\ RoomForAll' /\ ParallelIsAffordable'
<1> SUFFICES ASSUME Decoding, PoolFollows, RoomForAll, ParallelIsAffordable, [Next]_vars
             PROVE  PoolFollows' /\ RoomForAll' /\ ParallelIsAffordable'
  OBVIOUS
<1>1. CASE Plans
  <2>1. /\ UNCHANGED <<config, session, cache>> /\ pc = "prefetch" /\ pc' # "drain"
        /\ pool' = IF pc' = "pool" THEN [r \in Routed |-> "queued"] ELSE NoPool
        /\ pc' = "pool" => ~Sequential /\ Affordable
    BY <1>1 DEF Plans, Saves
  <2>2. cache.reserved = 0 /\ Routed' = Routed
    BY <2>1, NoneReserved DEF Routed
  <2>3. Running' = {} /\ Running' \ cache.part = {}
        /\ InPhase({"refused"})' = {} /\ InPhase({"contract"})' = {}
    BY <2>1 DEF Running, InPhase, Futures, NoPool
  <2>4. Cardinality(Running' \ cache'.part) = 0
    BY <2>1, <2>3, FS_EmptySet
  <2>5. CASE pc' = "pool"
    <3>1. Futures' = Routed /\ Queued' = Routed
      BY <2>1, <2>5 DEF Futures, Queued, InPhase
    <3>2. config.allow
      BY <2>1, <2>5 DEF Sequential, Decoding, Config
    <3>3. PoolFollows'
      BY <2>1, <2>2, <2>3, <2>4, <2>5, <3>1, <3>2, RouteIsFinite DEF PoolFollows, Futures
    <3>4. Cardinality(Queued') \in Nat /\ cache.used \in Nat
      BY <3>1, RouteIsFinite, FS_CardinalityType DEF PoolFollows
    <3>5. cache.used + 0 + Cardinality(Queued') <= config.budget
      BY <2>1, <2>5, <3>1, <3>4 DEF Affordable
    <3> QED BY <2>1, <2>2, <2>3, <3>3, <3>5 DEF RoomForAll, ParallelIsAffordable
  <2>6. CASE pc' # "pool"
    <3>1. Futures' = {} /\ Queued' = {} /\ IsFiniteSet(Futures')
      BY <2>1, <2>6, FS_EmptySet DEF NoPool, Futures, Queued, InPhase
    <3>2. PoolFollows'
      BY <2>1, <2>2, <2>3, <2>4, <2>6, <3>1 DEF PoolFollows
    <3> QED BY <2>1, <2>3, <2>6, <3>2 DEF RoomForAll, ParallelIsAffordable
  <2> QED BY <2>5, <2>6
<1>2. ASSUME NEW r \in Futures, Worker(r)
      PROVE  PoolFollows' /\ RoomForAll' /\ ParallelIsAffordable'
  BY <1>2, BeginsInPool, EndsInPool DEF Worker
<1>3. ASSUME NEW r \in Futures, PoolFails(r)
      PROVE  PoolFollows' /\ RoomForAll' /\ ParallelIsAffordable'
  <2>1. /\ UNCHANGED <<config, session, cache>> /\ pc = "pool" /\ pc' = "drain"
        /\ pool' = [q \in Futures |-> IF pool[q] = "queued" THEN "cancelled" ELSE pool[q]]
    BY <1>3 DEF PoolFails
  <2>2. Futures' = Futures /\ Routed' = Routed
    BY <2>1 DEF Futures, Routed
  <2>3. /\ Queued' = {} /\ Running' = Running
        /\ InPhase({"contract"})' = InPhase({"contract"})
        /\ InPhase({"refused"})' = InPhase({"refused"})
    BY <2>1, <2>2 DEF Queued, Running, InPhase
  <2>4. PoolFollows'
    BY <2>1, <2>2, <2>3 DEF PoolFollows
  <2>5. RoomForAll'
    <3>1. IsFiniteSet(Queued) /\ Cardinality(Queued) \in Nat /\ Cardinality(Queued') = 0
      BY <2>3, FS_Subset, FS_CardinalityType, FS_EmptySet DEF PoolFollows, Queued, InPhase
    <3>2. config.budget \in Nat /\ cache.used \in Nat /\ cache.reserved \in Nat
      BY FS_Subset, FS_CardinalityType, DecoderAssumption
      DEF PoolFollows, Decoding, Config, Running, InPhase
    <3> QED BY <2>1, <2>3, <3>1, <3>2 DEF RoomForAll
  <2>6. ParallelIsAffordable'
    BY <2>3 DEF ParallelIsAffordable
  <2> QED BY <2>4, <2>5, <2>6
<1>4. CASE PoolSucceeds
  <2>1. /\ UNCHANGED <<config, session, cache>> /\ pc' = "routed" /\ pool' = NoPool /\ Drained
    BY <1>4 DEF PoolSucceeds, Drained, InPhase
  <2>2. Futures' = {} /\ Queued' = {} /\ Running' = {} /\ InPhase({"refused"})' = {}
        /\ IsFiniteSet(Futures')
    BY <2>1, FS_EmptySet DEF NoPool, Futures, Queued, Running, InPhase
  <2>3. cache.reserved = 0 /\ Running' \ cache'.part = {}
    BY <2>1, <2>2, NoneReserved
  <2>4. Cardinality(Running' \ cache'.part) = 0
    BY <2>3, FS_EmptySet
  <2> QED BY <2>1, <2>2, <2>3, <2>4 DEF PoolFollows, RoomForAll, ParallelIsAffordable
<1>5. ASSUME UNCHANGED <<config, pool, cache>>, pc \notin {"pool", "drain"} \/ Drained,
             pc' \notin {"pool", "drain"}
      PROVE  PoolFollows' /\ RoomForAll' /\ ParallelIsAffordable'
  BY <1>5, OutsidePool
<1>6. CASE Begins \/ Boots \/ TokenStarts \/ PoolRaises \/ FinishesLayer \/ Checkpoint
  BY <1>5, <1>6 DEF Begins, Boots, TokenStarts, PoolRaises, FinishesLayer, Checkpoint, Saves,
                    Raises, routing
<1>7. CASE Commits \/ Reports \/ Completes \/ Handles
  BY <1>5, <1>7 DEF Commits, Reports, Completes, Handles, Saves, Raises, routing
<1>8. CASE Embeds \/ Routes \/ FetchesRouted \/ FetchRaises \/ Finals
  <2>1. UNCHANGED <<config, pool>> /\ pc \notin {"pool", "drain"} /\ pc' \notin {"pool", "drain"}
    BY <1>8 DEF Embeds, Routes, FetchesRouted, FetchRaises, Finals, Saves, Raises, routing
  <2>2. \E r, kinds : Fetches(r, kinds)
    BY <1>8 DEF Embeds, Routes, FetchesRouted, FetchRaises, Finals
  <2> QED BY <2>1, <2>2, OutsidePool
<1>9. CASE Retry
  <2>1. UNCHANGED <<config, pool>> /\ pc' \notin {"pool", "drain"}
    BY <1>9 DEF Retry, Retries, Saves
  <2>2. \/ pc = "routed" /\ Fetches(Head(todo), {"transport"})
        \/ Drained /\ UNCHANGED cache
    BY <1>9 DEF Retry
  <2> QED BY <2>1, <2>2, OutsidePool
<1>10. CASE UNCHANGED vars
  <2>1. UNCHANGED <<config, pc, session, pool, cache>>
    BY <1>10 DEF vars, routing
  <2> QED
    BY <2>1 DEF PoolFollows, RoomForAll, ParallelIsAffordable, Futures, Routed, Queued, Running, InPhase
<1> QED
  BY <1>1, <1>2, <1>3, <1>4, <1>6, <1>7, <1>8, <1>9, <1>10 DEF Next, Main

-----------------------------------------------------------------------------
(* The invariant *)

(* The decoder starts in the invariant. *)
LEMMA InitialState == Init => IInv
<1> SUFFICES ASSUME Init PROVE IInv
  OBVIOUS
<1>1. /\ Layers \in Nat \ {0} /\ BOS \in Tokens /\ config \in Config /\ config.tokens \in 1..2
      /\ pc = "begin" /\ report = BaseReport
      /\ disk = [status |-> "none", tokens |-> << >>, committed |-> << >>]
  BY DecoderAssumption DEF Init, Config
<1>2. /\ snapshot = [position |-> 0, input |-> BOS, windows |-> [l \in 1..Layers |-> << >>],
                     committed |-> << >>]
      /\ Len(snapshot.committed) = 0
  BY DEF Init
<1>3. Runtime
  <2>1. /\ [l \in 1..Layers |-> << >>] \in Seq(Windows) /\ Len([l \in 1..Layers |-> << >>]) = Layers
    <3>1. << >> \in Windows
      BY EmptySeq DEF Windows
    <3>2. [l \in 1..Layers |-> << >>] \in [1..Layers -> Windows]
      BY <3>1
    <3> QED BY <1>1, <3>2, SeqDef, LenProperties
  <2>2. Append(<< >>, BOS) = <<BOS>> \o << >>
    BY <1>1, EmptySeq, AppendIsConcat, ConcatEmptySeq
  <2>3. snapshot \in [position : Nat, input : Tokens, windows : Seq(Windows), committed : Seq(Tokens)]
    BY <1>1, <1>2, <2>1, EmptySeq
  <2> QED BY <1>1, <1>2, <2>1, <2>2, <2>3 DEF Runtime, Log
<1>4. Decoding
  <2>1. SessionFollows
    BY DEF Init, SessionFollows, NewSession, Fetching
  <2>2. InHand
    BY <1>1 DEF InHand, InToken, Fetching
  <2>3. work = [previous |-> work.previous, next |-> work.next, seen |-> work.seen,
                planned |-> work.planned]
    BY DEF Init
  <2> QED BY <1>1, <1>3, <2>1, <2>2, <2>3 DEF Decoding, Locations
<1>5. ReportFollows
  <2>1. report \in Report /\ disk \in Report
    BY <1>1, ReportFields, EmptySeq DEF BaseReport
  <2>2. /\ report.tokens = << >> /\ report.committed = << >> /\ report.status = "running"
        /\ disk.tokens = << >> /\ disk.committed = << >> /\ disk.status = "none"
    BY <1>1 DEF BaseReport
  <2>3. Claims(report) /\ Claims(disk)
    BY <1>2, <2>1, <2>2 DEF Claims
  <2> QED BY <1>1, <1>2, <2>2, <2>3 DEF ReportFollows, InToken, Fetching
<1>6. PoolFollows /\ RoomForAll /\ ParallelIsAffordable
  <2>1. Futures = {} /\ Queued = {} /\ Running = {} /\ InPhase({"refused"}) = {}
    BY DEF Init, NoPool, Futures, Queued, Running, InPhase
  <2>2. Running \ cache.part = {}
    BY <2>1
  <2>3. IsFiniteSet({}) /\ Cardinality({}) = 0
    BY FS_EmptySet
  <2>4. /\ cache = [have |-> cache.have, part |-> cache.part, used |-> cache.used,
                    reserved |-> cache.reserved]
        /\ cache.used = 0 /\ cache.reserved = 0
    BY DEF Init
  <2> QED BY <1>1, <2>1, <2>2, <2>3, <2>4 DEF PoolFollows, RoomForAll, ParallelIsAffordable
<1> QED BY <1>4, <1>5, <1>6 DEF IInv

(* Every reachable state decodes, reports and fetches as the invariant says. *)
THEOREM Invariance == Spec => []IInv
<1>1. IInv /\ [Next]_vars => IInv'
  BY DecodingStep, ReportStep, PoolStep DEF IInv
<1> QED BY InitialState, <1>1, PTL DEF Spec

(* No expert range is ever fetched before its route was submitted, nor after
   the attempt that submitted it is over: what the workers of the pool of
   _prefetch_submitted_experts fetch is the route of the current layer. *)
THEOREM FetchesTheRoute == Spec => []PagesOfTheRoute
<1>1. IInv => PagesOfTheRoute
  <2> SUFFICES ASSUME IInv, InPhase({"queued", "running"}) # {}
               PROVE  pc \in {"pool", "drain"} /\ session.phase = "routed" /\ Futures = Routed
    BY DEF PagesOfTheRoute
  <2>1. Queued # {} \/ Running # {}
    BY DEF Queued, Running, InPhase
  <2>2. pc \in {"pool", "drain"}
    BY <2>1 DEF IInv, PoolFollows
  <2> QED BY <2>2 DEF IInv, PoolFollows, Decoding, SessionFollows, Fetching
<1> QED BY Invariance, <1>1, PTL

(* Whoever runs beside it, a range that the plan of the layer has found
   affordable is not refused for the download budget, unless a response was
   longer than it said. *)
THEOREM NeverRefused == Spec => []ParallelIsAffordable
<1>1. IInv => ParallelIsAffordable
  BY DEF IInv
<1> QED BY Invariance, <1>1, PTL

(* Whatever could not be written, and whenever the process ends, the report in
   the file claims no token that was not committed, and one that says that the
   run is over names all that were. *)
THEOREM HonestReport == Spec => []ReportIsHonest
<1>1. IInv => ReportIsHonest
  <2> SUFFICES ASSUME IInv PROVE ReportIsHonest
    OBVIOUS
  <2>1. /\ Claims(disk) /\ snapshot.committed \in Seq(Tokens)
        /\ disk.status \in {"complete", "blocked"} => disk.committed = snapshot.committed
        /\ disk.status = "complete" => Len(disk.committed) = config.tokens
    BY DEF IInv, ReportFollows, Decoding, Runtime
  <2>2. disk.committed \in Seq(Tokens) /\ disk.tokens \in Seq(TokenEntry)
    BY <2>1, ReportFields DEF Claims
  <2>3. IsPrefix(disk.committed, snapshot.committed)
    <3> DEFINE s == disk.committed
               t == snapshot.committed
    <3>1. /\ s \in Seq(Tokens) /\ t \in Seq(Tokens) /\ Len(s) \in Nat /\ Len(t) \in Nat
          /\ Len(s) <= Len(t) /\ \A i \in 1..Len(s) : s[i] = t[i]
      BY <2>1, <2>2, LenProperties DEF Claims
    <3> HIDE DEF s, t
    <3>2. /\ SubSeq(s, 1, Len(s)) \in Seq(Tokens) /\ Len(SubSeq(s, 1, Len(s))) = Len(s)
          /\ \A i \in 1..Len(s) : SubSeq(s, 1, Len(s))[i] = s[i]
      BY <3>1
    <3>3. /\ SubSeq(t, 1, Len(s)) \in Seq(Tokens) /\ Len(SubSeq(t, 1, Len(s))) = Len(s)
          /\ \A i \in 1..Len(s) : SubSeq(t, 1, Len(s))[i] = t[i]
      BY <3>1
    <3>4. SubSeq(s, 1, Len(s)) = SubSeq(t, 1, Len(s))
      BY <3>1, <3>2, <3>3, SeqEqual
    <3> QED BY <3>1, <3>4 DEF IsPrefix, s, t
  <2>4. \A i \in DOMAIN disk.tokens : disk.tokens[i].state_committed => i <= Len(snapshot.committed)
    BY <2>1, <2>2, LenProperties DEF Claims
  <2> QED BY <2>1, <2>3, <2>4 DEF ReportIsHonest
<1> QED BY Invariance, <1>1, PTL

-----------------------------------------------------------------------------
(* The refinement *)

(* All the layers stand for the log. *)
LEMMA AbsorbedIsLog ==
  ASSUME Runtime, config \in Config
  PROVE  Absorbed = Log
<1>1. /\ Layers \in Nat \ {0} /\ 1 \in 1..Layers /\ Len(snapshot.windows) = Layers
      /\ snapshot.windows \in Seq(Seq(Tokens)) /\ snapshot.input \in Tokens
      /\ \A l \in 1..Layers : Append(snapshot.windows[l], snapshot.input) = Log
  BY DecoderAssumption, WindowIsSequence DEF Runtime
<1>2. \A l \in 1..Layers : snapshot.windows[l] \in Seq(Tokens)
  BY <1>1, ElementOfSeq
<1>3. PICK w : w = snapshot.windows[1]
  OBVIOUS
<1>4. ASSUME NEW l \in 1..Layers
      PROVE  snapshot.windows[l] = w
  <2>1. /\ snapshot.windows[l] \in Seq(Tokens) /\ w \in Seq(Tokens)
        /\ Append(snapshot.windows[l], snapshot.input) = Append(w, snapshot.input)
    BY <1>1, <1>2, <1>3
  <2> QED BY <1>1, <2>1, AppendInjective, SMTT(60)
<1>5. {snapshot.windows[l] : l \in 1..Layers} = {w}
  BY <1>1, <1>3, <1>4
<1>6. Cardinality({w}) = 1 /\ (CHOOSE h \in {w} : TRUE) = w
  BY FS_Singleton
<1> QED BY <1>1, <1>3, <1>5, <1>6 DEF Absorbed

(* Only Commits touches the runtime. *)
LEMMA OnlyCommits ==
  ASSUME [Next]_vars, snapshot' # snapshot
  PROVE  Commits
BY DEF Next, Main, Worker, vars, Begins, Boots, TokenStarts, Embeds, Routes, Attended, Plans,
       PoolSucceeds, PoolRaises, PoolFails, PoolBegins, PoolEnds, FetchesRouted, FetchRaises,
       Retry, FinishesLayer, Checkpoint, Finals, Reports, Completes, Handles

(* Whatever fails on the way, at whatever step, the runtime of executor.py
   decodes greedily: the token log and the states of all the layers move
   together, by one token that the network gives after exactly that log. *)
THEOREM DecodesGreedily == Spec => Decodes
<1>1. Init => Greedy!GInit
  BY InitialState, AbsorbedIsLog DEF IInv, Decoding, Greedy!GInit, Log
<1>2. IInv => Absorbed = Log
  BY AbsorbedIsLog DEF IInv, Decoding
<1>3. IInv /\ Absorbed = Log /\ (Absorbed = Log)' /\ [Next]_vars => [Greedy!Commit]_(Greedy!gvars)
  <2> SUFFICES ASSUME IInv, Absorbed = Log, (Absorbed = Log)', [Next]_vars
               PROVE  [Greedy!Commit]_(Greedy!gvars)
    OBVIOUS
  <2>1. Runtime /\ config \in Config
    BY DEF IInv, Decoding
  <2>2. Absorbed = Log /\ Absorbed' = Log'
    OBVIOUS
  <2>3. CASE snapshot' = snapshot
    BY <2>2, <2>3 DEF Log, Greedy!gvars
  <2>4. CASE snapshot' # snapshot
    <3>1. /\ snapshot.position < config.tokens /\ Log' = Append(Log, Native(Log))
      BY <2>4, OnlyCommits, CommitsToken DEF IInv
    <3>2. /\ Log \in Seq(Tokens) /\ Len(Log) = snapshot.position + 1
          /\ snapshot.position \in Nat /\ config.tokens \in 1..2
      BY <2>1, LogProperties
    <3>3. Native(Log) \in Tokens
      BY <2>1, <3>1, LogProperties DEF Runtime, Requested
    <3> DEFINE s == Log
               t == Log'
    <3>4. /\ s \in Seq(Tokens) /\ Len(s) \in 1..2 /\ t = Append(s, Native(s)) /\ Native(s) \in Tokens
      BY <3>1, <3>2, <3>3
    <3> HIDE DEF s, t
    <3>5. /\ t \in Seq(Tokens) /\ Len(t) = Len(s) + 1 /\ t[Len(t)] = Native(s)
          /\ \A i \in 1..Len(s) : t[i] = s[i]
      BY <3>4, AppendProperties
    <3>6. SubSeq(t, 1, Len(s)) = s
      <4>1. /\ SubSeq(t, 1, Len(s)) \in Seq(Tokens) /\ Len(SubSeq(t, 1, Len(s))) = Len(s)
            /\ \A i \in 1..Len(s) : SubSeq(t, 1, Len(s))[i] = t[i]
        BY <3>4, <3>5
      <4> QED BY <3>4, <3>5, <4>1, SeqEqual
    <3>7. Greedy!GreedyExtension(s, t)
      <4>1. \A i \in (Len(s) + 1)..Len(t) : t[i] = Native(SubSeq(t, 1, i - 1))
        <5>1. ASSUME NEW i \in (Len(s) + 1)..Len(t)
              PROVE  i = Len(t) /\ i - 1 = Len(s)
          BY <3>4, <3>5
        <5> QED BY <3>5, <3>6, <5>1
      <4>2. Len(t) \in (Len(s) + 1)..(Len(s) + 1) /\ Len(t) <= 3
        BY <3>4, <3>5
      <4> QED BY <3>6, <4>1, <4>2 DEF Greedy!GreedyExtension
    <3>8. Greedy!Commit
      BY <2>2, <3>7 DEF Greedy!Commit, s, t, Log
    <3> QED BY <3>8
  <2> QED BY <2>3, <2>4
<1> QED BY Invariance, <1>1, <1>2, <1>3, PTL DEF Spec, Decodes, Greedy!GSpec
=============================================================================
