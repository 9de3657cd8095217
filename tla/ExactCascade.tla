---------------------------- MODULE ExactCascade ----------------------------
(***************************************************************************)
(* ExactCascadeSession (scheduler/s14_runner/src/cascade.rs): speculative  *)
(* decoding where a cheap profile drafts a block of K tokens and the       *)
(* FullDepth43/native-top6 model verifies the block causally.  A round is  *)
(*                                                                         *)
(*    begin_round -> submit_draft -> make_request -> finish_response       *)
(*                                                                         *)
(* and can be abandoned at any point.  The verifier is a process behind    *)
(* the session's request/response contract: its replies arrive late, more  *)
(* than once, or damaged, and replies to abandoned rounds stay in flight.  *)
(***************************************************************************)
EXTENDS Naturals, Sequences

CONSTANTS
  VocabSize,       \* VOCAB_SIZE: token ids at or above it are illegal
  BlockSizes,      \* EXACT_CASCADE_BLOCK_SIZES ({1, 4, 8} in the code)
  MaxSeqLen,       \* NativeState.max_seq_len
  Native(_),       \* the FullDepth43 model: greedy token after a context
  Prompts,         \* contexts a session is constructed with
  InitialPoison,   \* values of NativeState.poisoned it is constructed with
  AliasedReplies,  \* may a reply name the checkpoint of some other state?
  MaxRounds,       \* bound on the number of rounds (request ids)
  MaxCheckpoints,  \* bound on the checkpoints the verifier creates
  NoRound,         \* None of Option<PendingRound>
  NoRequest        \* None of Option<ExactCascadeRequest>

Token    == 0..(VocabSize - 1)
Contexts == UNION {[1..n -> Token] : n \in 0..MaxSeqLen}
Drafts   == UNION {[1..k -> Token] : k \in BlockSizes}

(* What the environment may submit as a draft: VocabSize stands for every id
   outside the vocabulary, and the block may have another length than K. *)
DraftInputs == UNION {[1..k -> Token \cup {VocabSize}] : k \in BlockSizes}

ASSUME ConstantsAssumption ==
  /\ VocabSize \in Nat \ {0}
  /\ BlockSizes \subseteq Nat \ {0}
  /\ \E k \in BlockSizes : \A j \in BlockSizes : j <= k
  /\ MaxSeqLen \in Nat
  /\ Prompts \subseteq Contexts
  /\ InitialPoison \subseteq BOOLEAN
  /\ AliasedReplies \in BOOLEAN
  /\ MaxRounds \in Nat
  /\ MaxCheckpoints \in Nat

ASSUME NativeAssumption == \A c \in Contexts : Native(c) \in Token

VARIABLES
  context,          \* context_token_ids
  position,         \* native_state.position
  poisoned,         \* native_state.poisoned
  checkpoint,       \* committed_checkpoint_id
  phase,            \* ExactCascadePhase
  pending,          \* Option<PendingRound>
  next_request_id,
  requests,         \* every request handed to the verifier
  replies,          \* every reply it produced: none is ever lost for good
  store             \* the verifier's checkpoints: store[id] is the token
                    \* sequence the recursive state of checkpoint id absorbed

session == <<context, position, poisoned, checkpoint, phase, pending,
             next_request_id>>
backend == <<replies, store>>
vars    == <<session, requests, backend>>

(***************************************************************************)
(* Records                                                                 *)
(***************************************************************************)
Request ==
  [request_id : 1..MaxRounds, block_size : BlockSizes, base_position : 0..MaxSeqLen,
   base_checkpoint : Nat \ {0}, context : Contexts, draft : Drafts]

Round ==
  [request_id : 1..MaxRounds, block_size : BlockSizes, draft : Drafts \cup {<<>>},
   request : Request \cup {NoRequest}, base_context_len : 0..MaxSeqLen,
   base_position : 0..MaxSeqLen, base_poisoned : BOOLEAN, base_checkpoint : Nat \ {0}]

PositionReply ==
  [token_offset : Nat, predicted : Token, layers : {"all43", "partial"},
   checkpoint_id : Nat \ {0}, parent : Nat \ {0}, position_after : Nat,
   committed_token : Token]

Reply ==
  [request_id : 1..MaxRounds, profile : {"FullDepth43", "drift"},
   block_size : BlockSizes, base_position : 0..MaxSeqLen,
   base_checkpoint : Nat \ {0}, positions : Seq(PositionReply)]

ASSUME NoneAssumption == NoRound \notin Round /\ NoRequest \notin Request

(***************************************************************************)
(* The verifier, external to src/: what the contract file calls a causal   *)
(* block.  Offset i is computed after the committed context and the first  *)
(* i - 1 draft tokens, and leaves a checkpoint that also absorbed its own  *)
(* prediction.                                                             *)
(***************************************************************************)
Before(q, i)     == q.context \o SubSeq(q.draft, 1, i - 1)
Prediction(q, i) == Native(Before(q, i))
Absorbed(q, i)   == Append(Before(q, i), Prediction(q, i))

(* The reply to q whose checkpoints get the ids fresh + 1, fresh + 2, ... *)
HonestReply(q, fresh) ==
  [request_id |-> q.request_id, profile |-> "FullDepth43",
   block_size |-> q.block_size, base_position |-> q.base_position,
   base_checkpoint |-> q.base_checkpoint,
   positions |-> [i \in 1..q.block_size |->
     [token_offset |-> i - 1, predicted |-> Prediction(q, i), layers |-> "all43",
      checkpoint_id |-> fresh + i,
      parent |-> IF i = 1 THEN q.base_checkpoint ELSE fresh + i - 1,
      position_after |-> q.base_position + i,
      committed_token |-> Prediction(q, i)]]]

Verify(q) ==
  /\ Len(store) + q.block_size <= MaxCheckpoints
  /\ replies' = replies \cup {HonestReply(q, Len(store))}
  /\ store' = store \o [i \in 1..q.block_size |-> Absorbed(q, i)]
  /\ UNCHANGED <<session, requests>>

(* Position i of r with one of its fields altered.  Only if AliasedReplies may
   its checkpoint be one that is not of the reply, be it that of the base or of
   another round: at the last position validate_against accepts it. *)
DamagedPosition(r, i) ==
  LET p == r.positions[i] IN
  {[p EXCEPT !.layers = "partial"], [p EXCEPT !.token_offset = i],
   [p EXCEPT !.position_after = @ + 1]}
    \cup {[p EXCEPT !.predicted = t] : t \in Token}
    \cup {[p EXCEPT !.checkpoint_id = r.positions[j].checkpoint_id] :
            j \in DOMAIN r.positions}
    \cup IF AliasedReplies THEN {[p EXCEPT !.checkpoint_id = c] : c \in DOMAIN store} ELSE {}

(* A reply as it may reach finish_response: intact, or with one part of it
   missing or altered on the way. *)
Delivered(r) ==
  {r, [r EXCEPT !.profile = "drift"],
      [r EXCEPT !.positions = SubSeq(@, 1, Len(@) - 1)]}
    \cup UNION {{[r EXCEPT !.positions[i] = p] : p \in DamagedPosition(r, i)} :
                  i \in DOMAIN r.positions}

(***************************************************************************)
(* ExactCascadeResponse::validate_against                                  *)
(***************************************************************************)
(* Mutation: a reply is matched to the round by its base, not by its id. *)
SameIdentity_AnyRound(r, q) ==
  /\ r.profile = "FullDepth43"
  /\ r.block_size = q.block_size
  /\ r.base_position = q.base_position
  /\ r.base_checkpoint = q.base_checkpoint

SameIdentity(r, q) ==
  /\ r.request_id = q.request_id
  /\ r.profile = "FullDepth43"
  /\ r.block_size = q.block_size
  /\ r.base_position = q.base_position
  /\ r.base_checkpoint = q.base_checkpoint

ParentOf(r, q, i) ==
  IF i = 1 THEN q.base_checkpoint ELSE r.positions[i - 1].checkpoint_id

(* Mutation: checkpoint ids may repeat inside a reply. *)
ValidPosition_RepeatedId(r, q, i) ==
  LET p == r.positions[i] IN
  /\ p.token_offset = i - 1
  /\ p.predicted < VocabSize
  /\ p.layers = "all43"
  /\ p.parent = ParentOf(r, q, i)
  /\ p.position_after = q.base_position + i
  /\ p.committed_token = p.predicted

ValidPosition(r, q, i) ==
  LET p == r.positions[i] IN
  /\ p.token_offset = i - 1
  /\ p.predicted < VocabSize
  /\ p.layers = "all43"
  /\ p.parent = ParentOf(r, q, i)
  /\ p.position_after = q.base_position + i
  /\ p.committed_token = p.predicted
  /\ \A j \in 1..(i - 1) : r.positions[j].checkpoint_id # p.checkpoint_id

ValidReply(r, q) ==
  /\ SameIdentity(r, q)
  /\ Len(r.positions) = q.block_size
  /\ \A i \in 1..q.block_size : ValidPosition(r, q, i)

(***************************************************************************)
(* validate_and_plan_commit: keep the draft up to the first disagreement   *)
(* and the verifier's token there; adopt the checkpoint of that offset.    *)
(***************************************************************************)
Mismatches(r, q) ==
  {i \in 1..q.block_size : q.draft[i] # r.positions[i].predicted}

(* Mutation: any disagreement keeps only the verifier's first token. *)
CommitLength_FirstOnly(r, q) == IF Mismatches(r, q) = {} THEN q.block_size ELSE 1

CommitLength(r, q) ==
  IF Mismatches(r, q) = {} THEN q.block_size
  ELSE CHOOSE i \in Mismatches(r, q) : \A j \in Mismatches(r, q) : i <= j

CommittedTokens(r, q) ==
  LET n == CommitLength(r, q)
  IN  Append(SubSeq(q.draft, 1, n - 1), r.positions[n].predicted)

CommitPosition(r, q) == r.positions[CommitLength(r, q)]

(* NativeState::validate_for on the new state, and the closure check. *)
ClosedPlan(r, q, p) ==
  /\ CommitPosition(r, q).position_after <= MaxSeqLen
  /\ p.base_context_len + Len(CommittedTokens(r, q))
       = CommitPosition(r, q).position_after

Accepts(r) ==
  /\ ValidReply(r, pending.request)
  /\ ClosedPlan(r, pending.request, pending)

(***************************************************************************)
(* The session's methods.  A method that returns Err without touching any  *)
(* field (wrong phase, illegal K) is a stuttering step and is not listed.  *)
(***************************************************************************)
(* Mutation: the abandoned round is not taken out of the Option. *)
RollbackPending_Kept ==
  /\ context' = SubSeq(context, 1, pending.base_context_len)
  /\ position' = pending.base_position
  /\ poisoned' = pending.base_poisoned
  /\ checkpoint' = pending.base_checkpoint
  /\ UNCHANGED pending
  /\ phase' = "ready"

RollbackPending ==
  /\ context' = SubSeq(context, 1, pending.base_context_len)
  /\ position' = pending.base_position
  /\ poisoned' = pending.base_poisoned
  /\ checkpoint' = pending.base_checkpoint
  /\ pending' = NoRound
  /\ phase' = "ready"

(* Mutation: no check that the block fits into max_seq_len. *)
BeginRound_NoRoom(k) ==
  /\ phase = "ready"
  /\ next_request_id <= MaxRounds
  /\ pending' = [request_id |-> next_request_id, block_size |-> k, draft |-> <<>>,
                 request |-> NoRequest, base_context_len |-> Len(context),
                 base_position |-> position, base_poisoned |-> poisoned,
                 base_checkpoint |-> checkpoint]
  /\ next_request_id' = next_request_id + 1
  /\ phase' = "drafting"
  /\ UNCHANGED <<context, position, poisoned, checkpoint, requests, backend>>

BeginRound(k) ==
  /\ phase = "ready"
  /\ position + k <= MaxSeqLen
  /\ next_request_id <= MaxRounds
  /\ pending' = [request_id |-> next_request_id, block_size |-> k, draft |-> <<>>,
                 request |-> NoRequest, base_context_len |-> Len(context),
                 base_position |-> position, base_poisoned |-> poisoned,
                 base_checkpoint |-> checkpoint]
  /\ next_request_id' = next_request_id + 1
  /\ phase' = "drafting"
  /\ UNCHANGED <<context, position, poisoned, checkpoint, requests, backend>>

LegalDraft(d) == Len(d) = pending.block_size /\ \A i \in DOMAIN d : d[i] < VocabSize

SubmitDraft(d) ==
  /\ phase = "drafting"
  /\ LegalDraft(d)
  /\ pending' = [pending EXCEPT !.draft = d]
  /\ phase' = "awaiting_verification"
  /\ UNCHANGED <<context, position, poisoned, checkpoint, next_request_id, requests,
                 backend>>

RefuseDraft(d) ==
  /\ phase = "drafting"
  /\ ~LegalDraft(d)
  /\ RollbackPending
  /\ UNCHANGED <<next_request_id, requests, backend>>

MakeRequest ==
  /\ phase = "awaiting_verification"
  /\ LET q == [request_id |-> pending.request_id, block_size |-> pending.block_size,
               base_position |-> pending.base_position,
               base_checkpoint |-> pending.base_checkpoint,
               context |-> context, draft |-> pending.draft]
     IN  /\ pending' = [pending EXCEPT !.request = q]
         /\ requests' = requests \cup {q}
  /\ phase' = "verifying"
  /\ UNCHANGED <<context, position, poisoned, checkpoint, next_request_id, backend>>

(* Mutation: the committed checkpoint is left behind. *)
CommitReply_OldCheckpoint(r) ==
  /\ phase = "verifying"
  /\ Accepts(r)
  /\ context' = context \o CommittedTokens(r, pending.request)
  /\ position' = CommitPosition(r, pending.request).position_after
  /\ poisoned' = FALSE
  /\ pending' = NoRound
  /\ phase' = "ready"
  /\ UNCHANGED <<checkpoint, next_request_id, requests, backend>>

CommitReply(r) ==
  /\ phase = "verifying"
  /\ Accepts(r)
  /\ context' = context \o CommittedTokens(r, pending.request)
  /\ position' = CommitPosition(r, pending.request).position_after
  /\ poisoned' = FALSE
  /\ checkpoint' = CommitPosition(r, pending.request).checkpoint_id
  /\ pending' = NoRound
  /\ phase' = "ready"
  /\ UNCHANGED <<next_request_id, requests, backend>>

RejectReply(r) ==
  /\ phase = "verifying"
  /\ ~Accepts(r)
  /\ RollbackPending
  /\ UNCHANGED <<next_request_id, requests, backend>>

(* abort_round, or fail_verification when the backend reports an error or the
   caller gives up waiting. *)
AbortRound ==
  /\ pending # NoRound
  /\ RollbackPending
  /\ UNCHANGED <<next_request_id, requests, backend>>

FinishResponse ==
  \E r \in replies : \E d \in Delivered(r) : CommitReply(d) \/ RejectReply(d)

(* new_gated: the context has as many tokens as the state absorbed. *)
Init ==
  /\ context \in Prompts
  /\ position = Len(context)
  /\ poisoned \in InitialPoison
  /\ checkpoint = 1
  /\ phase = "ready"
  /\ pending = NoRound
  /\ next_request_id = 1
  /\ requests = {}
  /\ replies = {}
  /\ store = <<context>>

Next ==
  \/ \E k \in BlockSizes : BeginRound(k)
  \/ \E d \in DraftInputs : SubmitDraft(d) \/ RefuseDraft(d)
  \/ MakeRequest
  \/ \E q \in requests : Verify(q)
  \/ FinishResponse
  \/ AbortRound

Spec == Init /\ [][Next]_vars

-----------------------------------------------------------------------------
(***************************************************************************)
(* Correctness                                                             *)
(***************************************************************************)

(* Every variable keeps its type, and the recursive state never stands past *)
(* max_seq_len.                                                            *)
TypeOK ==
  /\ context \in Contexts
  /\ position \in 0..MaxSeqLen
  /\ poisoned \in BOOLEAN
  /\ checkpoint \in 1..Len(store)
  /\ phase \in {"ready", "drafting", "awaiting_verification", "verifying"}
  /\ pending \in Round \cup {NoRound}
  /\ next_request_id \in 1..(MaxRounds + 1)
  /\ requests \in SUBSET Request
  /\ replies \in SUBSET Reply
  /\ store \in Seq(Contexts)

(* The Option fields agree with the phase, which is what the code's         *)
(* expect("... 必有 pending") calls rely on in every method, and while a     *)
(* round is open the session still shows exactly the state it started from. *)
RoundShape ==
  /\ phase = "ready" <=> pending = NoRound
  /\ position = Len(context)
  /\ pending # NoRound =>
       /\ pending.request # NoRequest <=> phase = "verifying"
       /\ pending.request_id = next_request_id - 1
       /\ pending.base_context_len = Len(context)
       /\ pending.base_position = position
       /\ pending.base_poisoned = poisoned
       /\ pending.base_checkpoint = checkpoint

(* c continues p by nothing but the FullDepth43 model's own greedy tokens. *)
GreedyContinuation(p, c) ==
  /\ Len(p) <= Len(c)
  /\ SubSeq(c, 1, Len(p)) = p
  /\ \A i \in (Len(p) + 1)..Len(c) : c[i] = Native(SubSeq(c, 1, i - 1))

(* Exactness: every token the session ever committed is the token the       *)
(* FullDepth43 model produces greedily after the tokens before it, although *)
(* a cheaper profile drafted it and replies of abandoned rounds are about.  *)
CommittedIsGreedy == \E p \in Prompts : GreedyContinuation(p, context)

(* The committed checkpoint is the recursive state of exactly the committed *)
(* context: resuming from it neither loses nor repeats a token.             *)
CheckpointMatchesContext == store[checkpoint] = context

(* "longest_equal_draft_native_prefix": a commit takes the whole agreeing   *)
(* prefix of the draft, then the verifier's token, and never a token beyond *)
(* the K drafted ones.                                                     *)
Agrees(i) == pending.draft[i] = Native(context \o SubSeq(pending.draft, 1, i - 1))
AgreeingPrefix(n) == \A i \in 1..n : Agrees(i)
LongestPrefixCommitted ==
  [][context' # context =>
       LET n == Len(context') - Len(context) IN
       /\ n \in 1..pending.block_size
       /\ AgreeingPrefix(n - 1)
       /\ n < pending.block_size => ~Agrees(n)]_vars

(***************************************************************************)
(* The inductive strengthening of the four invariants above: what makes a  *)
(* late reply harmless is that request ids are never reused, so the only   *)
(* reply the open round can accept was computed from its own request.      *)
(***************************************************************************)
RequestsInv ==
  /\ \A q \in requests :
       /\ q.request_id < next_request_id
       /\ Len(q.draft) = q.block_size
       /\ Len(q.context) = q.base_position
       /\ q.base_position + q.block_size <= MaxSeqLen
       /\ q.base_checkpoint <= Len(store)
  /\ \A q1, q2 \in requests : q1.request_id = q2.request_id => q1 = q2

RoundInv ==
  pending # NoRound =>
    /\ position + pending.block_size <= MaxSeqLen
    /\ phase # "drafting" =>
         pending.draft \in Drafts /\ Len(pending.draft) = pending.block_size
    /\ phase # "verifying" =>
         \A q \in requests : q.request_id # pending.request_id
    /\ phase = "verifying" =>
         /\ pending.request \in requests
         /\ pending.request =
              [request_id |-> pending.request_id, block_size |-> pending.block_size,
               base_position |-> position, base_checkpoint |-> checkpoint,
               context |-> context, draft |-> pending.draft]

HonestFrom(r, q, f) ==
  /\ f + q.block_size <= Len(store)
  /\ r = HonestReply(q, f)
  /\ \A i \in 1..q.block_size : store[f + i] = Absorbed(q, i)

RepliesInv ==
  \A r \in replies : \E q \in requests : \E f \in 0..Len(store) : HonestFrom(r, q, f)

(* Only a reply that names the checkpoint of another state can part the two. *)
CheckpointInv == ~AliasedReplies => CheckpointMatchesContext

IInv ==
  /\ TypeOK
  /\ RoundShape
  /\ RequestsInv
  /\ RoundInv
  /\ RepliesInv
  /\ CheckpointInv
  /\ CommittedIsGreedy

(* The session is an atomic greedy decoder: see GreedyDecoding. *)
MaxBlock == CHOOSE k \in BlockSizes : \A j \in BlockSizes : j <= k
Greedy == INSTANCE GreedyDecoding WITH tokens <- context, state <- store[checkpoint]
RefinesGreedyDecoding == Greedy!GSpec

=============================================================================
