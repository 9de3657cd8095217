------------------------- MODULE ExactCascadeProofs -------------------------
(***************************************************************************)
(* Proofs about ExactCascade for every vocabulary, block-size set, model   *)
(* and bound: the session only ever commits the verifier's own greedy      *)
(* tokens, with the checkpoint that absorbed exactly those tokens.         *)
(***************************************************************************)
EXTENDS ExactCascade, SequenceTheorems, WellFoundedInduction, TLAPS

-----------------------------------------------------------------------------
(* Data *)

(* Contexts are the token sequences of bounded length. *)
LEMMA ContextsAreSequences ==
  \A c : c \in Contexts <=> c \in Seq(Token) /\ Len(c) <= MaxSeqLen
<1>1. ASSUME NEW c, c \in Contexts
      PROVE  c \in Seq(Token) /\ Len(c) <= MaxSeqLen
  <2>1. PICK n \in 0..MaxSeqLen : c \in [1..n -> Token]
    BY <1>1 DEF Contexts
  <2>2. MaxSeqLen \in Nat
    BY ConstantsAssumption
  <2>3. c \in Seq(Token)
    BY <2>1, <2>2, SeqDef
  <2>4. Len(c) = n
    BY <2>1, <2>2, <2>3, LenProperties
  <2> QED BY <2>1, <2>2, <2>3, <2>4
<1>2. ASSUME NEW c, c \in Seq(Token), Len(c) <= MaxSeqLen
      PROVE  c \in Contexts
  <2>1. Len(c) \in 0..MaxSeqLen /\ c \in [1..Len(c) -> Token]
    BY <1>2, LenProperties, ConstantsAssumption
  <2> QED BY <2>1 DEF Contexts
<1> QED BY <1>1, <1>2

(* A draft is a sequence of at least one token. *)
LEMMA DraftsAreSequences ==
  ASSUME NEW d \in Drafts
  PROVE  d \in Seq(Token) /\ Len(d) \in BlockSizes
<1>1. PICK k \in BlockSizes : d \in [1..k -> Token]
  BY DEF Drafts
<1>2. k \in Nat
  BY ConstantsAssumption
<1>3. d \in Seq(Token)
  BY <1>1, <1>2, SeqDef
<1>4. Len(d) = k
  BY <1>1, <1>2, <1>3, LenProperties
<1> QED BY <1>3, <1>4

(* A nonempty set of naturals has a least element. *)
LEMMA LeastElement ==
  ASSUME NEW S, S \subseteq Nat, S # {}
  PROVE  \E m \in S : \A n \in S : m <= n
<1>1. PICK m \in S : \A n \in S : ~ (<<n, m>> \in OpToRel(<, Nat))
  BY NatLessThanWellFounded, WFMin
<1>2. \A n \in S : m <= n
  <2> SUFFICES ASSUME NEW n \in S, ~ (m <= n) PROVE FALSE
    OBVIOUS
  <2>1. <<n, m>> \in OpToRel(<, Nat)
    BY SMT DEF OpToRel
  <2> QED BY <2>1, <1>1
<1> QED BY <1>2

(* The number of tokens a commit takes: up to the first disagreement. *)
LEMMA CommitLengthProperties ==
  ASSUME NEW r, NEW q, q.block_size \in Nat \ {0}
  PROVE  LET n == CommitLength(r, q) IN
         /\ n \in 1..q.block_size
         /\ \A i \in 1..(n - 1) : q.draft[i] = r.positions[i].predicted
         /\ n < q.block_size => q.draft[n] # r.positions[n].predicted
<1> DEFINE n == CommitLength(r, q)
           M == Mismatches(r, q)
<1>1. CASE M = {}
  <2>1. n = q.block_size
    BY <1>1 DEF CommitLength
  <2>2. \A i \in 1..q.block_size : q.draft[i] = r.positions[i].predicted
    BY <1>1 DEF Mismatches
  <2> QED BY <2>1, <2>2
<1>2. CASE M # {}
  <2>1. M \subseteq Nat
    BY DEF Mismatches
  <2>2. PICK m \in M : \A j \in M : m <= j
    BY <1>2, <2>1, LeastElement
  <2>3. n \in M /\ \A j \in M : n <= j
    <3>1. n = CHOOSE i \in M : \A j \in M : i <= j
      BY <1>2 DEF CommitLength
    <3> QED BY <2>2, <3>1
  <2>4. n \in 1..q.block_size /\ q.draft[n] # r.positions[n].predicted
    BY <2>3 DEF Mismatches
  <2>5. ASSUME NEW i \in 1..(n - 1)
        PROVE  q.draft[i] = r.positions[i].predicted
    <3>1. i \in 1..q.block_size /\ i \notin M
      BY <2>3, <2>4
    <3> QED BY <3>1 DEF Mismatches
  <2> QED BY <2>4, <2>5
<1> QED BY <1>1, <1>2

-----------------------------------------------------------------------------
(* The verifier's replies *)

(* What the open round, or an earlier one, asked the verifier. *)
WellFormed(q) ==
  /\ q \in Request
  /\ Len(q.draft) = q.block_size
  /\ Len(q.context) = q.base_position
  /\ q.base_position + q.block_size <= MaxSeqLen

(* The contexts the verifier evaluates for a request fit into the state. *)
LEMMA VerifierContexts ==
  ASSUME NEW q, WellFormed(q), NEW i \in 1..q.block_size
  PROVE  /\ Before(q, i) \in Contexts
         /\ Len(Before(q, i)) = q.base_position + i - 1
         /\ Prediction(q, i) \in Token
         /\ Absorbed(q, i) \in Contexts
         /\ Len(Absorbed(q, i)) = q.base_position + i
<1>1. /\ q.context \in Seq(Token) /\ Len(q.context) = q.base_position
      /\ q.draft \in Seq(Token) /\ Len(q.draft) = q.block_size
      /\ q.base_position \in Nat /\ q.block_size \in Nat \ {0} /\ MaxSeqLen \in Nat
      /\ q.base_position + q.block_size <= MaxSeqLen
  BY ContextsAreSequences, DraftsAreSequences, ConstantsAssumption
     DEF WellFormed, Request
<1> DEFINE s == SubSeq(q.draft, 1, i - 1)
<1>2. s \in Seq(Token) /\ Len(s) = i - 1
  <2>1. \A j \in 1..(i - 1) : q.draft[j] \in Token
    BY <1>1, ElementOfSeq
  <2>2. s \in Seq(Token) /\ Len(s) = IF 1 <= i - 1 THEN (i - 1) - 1 + 1 ELSE 0
    BY <2>1, SubSeqProperties
  <2> QED BY <2>2, <1>1
<1>3. Before(q, i) \in Seq(Token) /\ Len(Before(q, i)) = q.base_position + i - 1
  <2> HIDE DEF s
  <2>1. /\ q.context \o s \in Seq(Token)
        /\ Len(q.context \o s) = Len(q.context) + Len(s)
    BY <1>1, <1>2, ConcatProperties, Zenon
  <2>2. Before(q, i) = q.context \o s
    BY DEF Before, s
  <2> QED BY <1>1, <1>2, <2>1, <2>2
<1>4. Before(q, i) \in Contexts
  <2>1. q.base_position + i - 1 <= MaxSeqLen
    BY <1>1
  <2> QED BY <1>3, <2>1, ContextsAreSequences
<1>5. Prediction(q, i) \in Token
  BY <1>4, NativeAssumption DEF Prediction
<1>6. /\ Absorbed(q, i) \in Seq(Token)
      /\ Len(Absorbed(q, i)) = q.base_position + i
  BY <1>1, <1>3, <1>5, AppendProperties, SMTT(60) DEF Absorbed
<1>7. Absorbed(q, i) \in Contexts
  BY <1>1, <1>6, ContextsAreSequences
<1> QED BY <1>3, <1>4, <1>5, <1>6, <1>7

(* The honest reply has the type of a reply. *)
LEMMA HonestReplyType ==
  ASSUME NEW q, WellFormed(q), NEW f \in Nat
  PROVE  HonestReply(q, f) \in Reply
<1> DEFINE P(i) == [token_offset |-> i - 1, predicted |-> Prediction(q, i),
                    layers |-> "all43", checkpoint_id |-> f + i,
                    parent |-> IF i = 1 THEN q.base_checkpoint ELSE f + i - 1,
                    position_after |-> q.base_position + i,
                    committed_token |-> Prediction(q, i)]
<1>1. /\ q.block_size \in Nat \ {0} /\ q.base_position \in Nat
      /\ q.base_checkpoint \in Nat \ {0}
  BY ConstantsAssumption DEF WellFormed, Request
<1>2. ASSUME NEW i \in 1..q.block_size
      PROVE  P(i) \in PositionReply
  <2>1. Prediction(q, i) \in Token
    BY VerifierContexts
  <2>2. /\ i - 1 \in Nat /\ f + i \in Nat \ {0} /\ q.base_position + i \in Nat
        /\ (IF i = 1 THEN q.base_checkpoint ELSE f + i - 1) \in Nat \ {0}
    BY <1>1
  <2> QED BY <2>1, <2>2 DEF PositionReply
<1>3. [i \in 1..q.block_size |-> P(i)] \in Seq(PositionReply)
  BY <1>1, <1>2, SeqDef
<1> QED BY <1>3 DEF HonestReply, Reply, WellFormed, Request

(* Whatever part of an honest reply was damaged, if it still passes
   validate_against for the request it answers then it carries the verifier's
   predictions unchanged, and its checkpoints unless it may name others. *)
LEMMA ValidatedRepliesAreHonest ==
  ASSUME NEW q, WellFormed(q), NEW f \in Nat,
         NEW d \in Delivered(HonestReply(q, f)), ValidReply(d, q)
  PROVE  \A j \in 1..q.block_size :
           /\ d.positions[j].predicted = Prediction(q, j)
           /\ \/ d.positions[j].checkpoint_id = f + j
              \/ AliasedReplies /\ d.positions[j].checkpoint_id \in DOMAIN store
           /\ d.positions[j].position_after = q.base_position + j
<1> DEFINE r == HonestReply(q, f)
           K == q.block_size
           Kept(j) == /\ d.positions[j].committed_token = Prediction(q, j)
                      /\ \/ d.positions[j].checkpoint_id = f + j
                         \/ AliasedReplies /\ d.positions[j].checkpoint_id \in DOMAIN store
<1>1. K \in Nat \ {0} /\ q.base_position \in Nat
  BY ConstantsAssumption DEF WellFormed, Request
<1>2. /\ r = [request_id |-> r.request_id, profile |-> r.profile,
              block_size |-> r.block_size, base_position |-> r.base_position,
              base_checkpoint |-> r.base_checkpoint, positions |-> r.positions]
      /\ DOMAIN r.positions = 1..K
      /\ Len(r.positions) = K
      /\ r.positions = [i \in 1..K |-> r.positions[i]]
      /\ \A i \in 1..K :
           /\ r.positions[i] = [token_offset |-> r.positions[i].token_offset,
                predicted |-> r.positions[i].predicted, layers |-> r.positions[i].layers,
                checkpoint_id |-> r.positions[i].checkpoint_id,
                parent |-> r.positions[i].parent,
                position_after |-> r.positions[i].position_after,
                committed_token |-> r.positions[i].committed_token]
           /\ r.positions[i].committed_token = Prediction(q, i)
           /\ r.positions[i].checkpoint_id = f + i
  BY <1>1 DEF HonestReply
<1>3. /\ Len(d.positions) = K
      /\ d.profile = "FullDepth43"
      /\ \A i \in 1..K : ValidPosition(d, q, i)
  BY DEF ValidReply, SameIdentity
<1>4. CASE d = r
  <2>1. \A j \in 1..K : Kept(j)
    BY <1>2, <1>4
  <2> QED BY <1>3, <2>1 DEF ValidPosition
<1>5. CASE d = [r EXCEPT !.profile = "drift"]
  <2>1. d.profile = "drift"
    BY <1>2, <1>5
  <2> QED BY <1>3, <2>1
<1>6. CASE d = [r EXCEPT !.positions = SubSeq(@, 1, Len(@) - 1)]
  <2>1. d.positions = SubSeq(r.positions, 1, K - 1)
    BY <1>2, <1>6
  <2>2. Len(d.positions) = K - 1
    BY <1>1, <2>1
  <2> QED BY <1>1, <1>3, <2>2
<1>7. CASE \E i \in 1..K : \E p \in DamagedPosition(r, i) : d = [r EXCEPT !.positions[i] = p]
  <2>1. PICK i \in 1..K : \E p \in DamagedPosition(r, i) : d = [r EXCEPT !.positions[i] = p]
    BY <1>7
  <2>2. PICK p \in DamagedPosition(r, i) : d = [r EXCEPT !.positions[i] = p]
    BY <2>1
  <2>3. /\ p.committed_token = Prediction(q, i)
        /\ \/ \E j \in 1..K : p.checkpoint_id = f + j
           \/ AliasedReplies /\ p.checkpoint_id \in DOMAIN store
    <3> DEFINE v == r.positions[i]
    <3>1. \/ p \in {[v EXCEPT !.layers = "partial"], [v EXCEPT !.token_offset = i],
                    [v EXCEPT !.position_after = @ + 1]}
          \/ \E t \in Token : p = [v EXCEPT !.predicted = t]
          \/ \E j \in 1..K : p = [v EXCEPT !.checkpoint_id = r.positions[j].checkpoint_id]
          \/ AliasedReplies /\ \E c \in DOMAIN store : p = [v EXCEPT !.checkpoint_id = c]
      <4>1. p \in DamagedPosition(r, i)
        BY <2>2
      <4> HIDE DEF r
      <4> QED BY <1>2, <4>1 DEF DamagedPosition
    <3>2. /\ v = [token_offset |-> v.token_offset, predicted |-> v.predicted,
                  layers |-> v.layers, checkpoint_id |-> v.checkpoint_id,
                  parent |-> v.parent, position_after |-> v.position_after,
                  committed_token |-> v.committed_token]
          /\ v.committed_token = Prediction(q, i)
          /\ \A j \in 1..K : r.positions[j].checkpoint_id = f + j
          /\ v.checkpoint_id = f + i
      BY <1>2
    <3> HIDE DEF v, r
    <3> QED BY <3>1, <3>2
  <2>4. /\ d.positions[i] = p
        /\ \A m \in 1..K : m # i => d.positions[m] = r.positions[m]
    <3> HIDE DEF r
    <3> QED BY <1>2, <2>2
  <2>5. \/ p.checkpoint_id = f + i
        \/ AliasedReplies /\ p.checkpoint_id \in DOMAIN store
    <3> SUFFICES ASSUME NEW j \in 1..K, p.checkpoint_id = f + j
                 PROVE  i = j
      BY <2>3
    <3>1. CASE i < j
      <4>1. d.positions[i].checkpoint_id # d.positions[j].checkpoint_id
        BY <1>3, <3>1 DEF ValidPosition
      <4> QED BY <1>2, <2>4, <3>1, <4>1
    <3>2. CASE j < i
      <4>1. d.positions[j].checkpoint_id # d.positions[i].checkpoint_id
        BY <1>3, <3>2 DEF ValidPosition
      <4> QED BY <1>2, <2>4, <3>2, <4>1
    <3> QED BY <3>1, <3>2
  <2>6. \A m \in 1..K : Kept(m)
    <3> HIDE DEF r
    <3> QED BY <1>2, <2>3, <2>4, <2>5
  <2> QED BY <1>3, <2>6 DEF ValidPosition
<1> QED
  <2>1. \/ d = r
        \/ d = [r EXCEPT !.profile = "drift"]
        \/ d = [r EXCEPT !.positions = SubSeq(@, 1, Len(@) - 1)]
        \/ \E i \in 1..K : \E p \in DamagedPosition(r, i) : d = [r EXCEPT !.positions[i] = p]
    <3>1. d \in Delivered(r)
      OBVIOUS
    <3> HIDE DEF r
    <3> QED BY <1>2, <3>1 DEF Delivered
  <2> QED BY <2>1, <1>4, <1>5, <1>6, <1>7
-----------------------------------------------------------------------------
(* What a commit appends *)

(* Greedy continuations compose. *)
LEMMA GreedyContinuationTransitive ==
  ASSUME NEW p \in Contexts, NEW c \in Contexts, NEW e \in Contexts,
         GreedyContinuation(p, c), GreedyContinuation(c, e)
  PROVE  GreedyContinuation(p, e)
<1>1. /\ p \in Seq(Token) /\ c \in Seq(Token) /\ e \in Seq(Token)
      /\ Len(p) \in Nat /\ Len(c) \in Nat /\ Len(e) \in Nat
  BY ContextsAreSequences, LenProperties
<1>2. /\ Len(p) <= Len(c) /\ SubSeq(c, 1, Len(p)) = p
      /\ \A i \in (Len(p) + 1)..Len(c) : c[i] = Native(SubSeq(c, 1, i - 1))
      /\ Len(c) <= Len(e) /\ SubSeq(e, 1, Len(c)) = c
      /\ \A i \in (Len(c) + 1)..Len(e) : e[i] = Native(SubSeq(e, 1, i - 1))
  BY DEF GreedyContinuation
<1>3. ASSUME NEW n \in 0..Len(c)
      PROVE  SubSeq(e, 1, n) = SubSeq(c, 1, n)
  <2>1. \A i \in 1..Len(c) : e[i] = c[i]
    <3>1. \A i \in 1..Len(c) : e[i] \in Token
      BY <1>1, <1>2, ElementOfSeq
    <3>2. \A i \in 1..Len(c) : SubSeq(e, 1, Len(c))[i] = e[i]
      BY <1>1, <3>1, SubSeqProperties
    <3> QED BY <1>2, <3>2
  <2>2. \A i \in 1..n : e[i] \in Token /\ c[i] \in Token
    BY <1>1, <1>2, ElementOfSeq
  <2>3. /\ SubSeq(e, 1, n) \in Seq(Token) /\ SubSeq(c, 1, n) \in Seq(Token)
        /\ Len(SubSeq(e, 1, n)) = n /\ Len(SubSeq(c, 1, n)) = n
        /\ \A i \in 1..n : SubSeq(e, 1, n)[i] = e[i] /\ SubSeq(c, 1, n)[i] = c[i]
    BY <1>1, <2>2, SubSeqProperties
  <2>4. \A i \in 1..n : SubSeq(e, 1, n)[i] = SubSeq(c, 1, n)[i]
    BY <1>1, <2>1, <2>3
  <2> QED BY <2>3, <2>4, SeqEqual
<1>4. \A i \in 1..Len(c) : e[i] = c[i]
  <2>1. \A i \in 1..Len(c) : e[i] \in Token
    BY <1>1, <1>2, ElementOfSeq
  <2>2. \A i \in 1..Len(c) : SubSeq(e, 1, Len(c))[i] = e[i]
    BY <1>1, <2>1, SubSeqProperties
  <2> QED BY <1>2, <2>2
<1>5. SubSeq(e, 1, Len(p)) = p
  BY <1>1, <1>2, <1>3
<1>6. ASSUME NEW i \in (Len(p) + 1)..Len(e)
      PROVE  e[i] = Native(SubSeq(e, 1, i - 1))
  <2>1. CASE i <= Len(c)
    <3>1. i - 1 \in 0..Len(c) /\ i \in 1..Len(c) /\ i \in (Len(p) + 1)..Len(c)
      BY <1>1, <2>1
    <3>2. e[i] = c[i] /\ c[i] = Native(SubSeq(c, 1, i - 1))
      BY <1>2, <1>4, <3>1
    <3>3. SubSeq(e, 1, i - 1) = SubSeq(c, 1, i - 1)
      BY <1>3, <3>1
    <3> QED BY <3>2, <3>3
  <2>2. CASE i > Len(c)
    BY <1>1, <1>2, <2>2
  <2> QED BY <1>1, <2>1, <2>2
<1> QED BY <1>1, <1>2, <1>5, <1>6 DEF GreedyContinuation

(* The elements of a concatenation, by the side they come from. *)
LEMMA ConcatElements ==
  ASSUME NEW S, NEW s \in Seq(S), NEW t \in Seq(S)
  PROVE  /\ s \o t \in Seq(S)
         /\ Len(s \o t) = Len(s) + Len(t)
         /\ \A i \in 1..Len(s) : (s \o t)[i] = s[i]
         /\ \A i \in 1..Len(t) : (s \o t)[Len(s) + i] = t[i]
<1>1. Len(s) \in Nat /\ Len(t) \in Nat
  BY LenProperties
<1>2. /\ s \o t \in Seq(S)
      /\ Len(s \o t) = Len(s) + Len(t)
      /\ \A i \in 1..(Len(s) + Len(t)) :
           (s \o t)[i] = IF i <= Len(s) THEN s[i] ELSE t[i - Len(s)]
  BY ConcatProperties, Zenon
<1>3. \A i \in 1..Len(s) : (s \o t)[i] = s[i]
  BY <1>1, <1>2
<1>4. ASSUME NEW i \in 1..Len(t)
      PROVE  (s \o t)[Len(s) + i] = t[i]
  <2>1. /\ Len(s) + i \in 1..(Len(s) + Len(t)) /\ ~(Len(s) + i <= Len(s))
        /\ (Len(s) + i) - Len(s) = i
    BY <1>1
  <2> QED BY <1>2, <2>1
<1> QED BY <1>2, <1>3, <1>4

(* A context x followed by the first j - 1 tokens of a draft d. *)
LEMMA PrefixElements ==
  ASSUME NEW S, NEW x \in Seq(S), NEW d \in Seq(S), NEW j \in 1..(Len(d) + 1)
  PROVE  LET z == x \o SubSeq(d, 1, j - 1) IN
         /\ SubSeq(d, 1, j - 1) \in Seq(S) /\ Len(SubSeq(d, 1, j - 1)) = j - 1
         /\ z \in Seq(S) /\ Len(z) = Len(x) + j - 1
         /\ \A i \in 1..Len(x) : z[i] = x[i]
         /\ \A i \in 1..(j - 1) : z[Len(x) + i] = d[i]
<1>1. Len(x) \in Nat /\ Len(d) \in Nat
  BY LenProperties
<1>2. PICK u : u = SubSeq(d, 1, j - 1)
  OBVIOUS
<1>3. \A i \in 1..(j - 1) : d[i] \in S
  BY <1>1, ElementOfSeq
<1>4. /\ u \in Seq(S) /\ Len(u) = j - 1
      /\ \A i \in 1..(j - 1) : u[i] = d[i]
  BY <1>1, <1>2, <1>3, SubSeqProperties
<1>5. /\ x \o u \in Seq(S) /\ Len(x \o u) = Len(x) + Len(u)
      /\ \A i \in 1..Len(x) : (x \o u)[i] = x[i]
      /\ \A i \in 1..Len(u) : (x \o u)[Len(x) + i] = u[i]
  <2>1. u \in Seq(S)
    BY <1>4
  <2> QED BY <2>1, ConcatElements
<1>6. Len(x \o u) = Len(x) + j - 1
  BY <1>1, <1>4, <1>5
<1>7. \A i \in 1..(j - 1) : (x \o u)[Len(x) + i] = d[i]
  BY <1>4, <1>5
<1> QED BY <1>2, <1>4, <1>5, <1>6, <1>7

(* x, the first n - 1 tokens of d, then e: its elements and its prefixes. *)
DraftThenToken(S, x, d, n, e) ==
  LET c == Append(x \o SubSeq(d, 1, n - 1), e) IN
  /\ x \o Append(SubSeq(d, 1, n - 1), e) = c
  /\ Len(Append(SubSeq(d, 1, n - 1), e)) = n
  /\ c \in Seq(S) /\ Len(c) = Len(x) + n
  /\ \A i \in 1..(n - 1) : c[Len(x) + i] = d[i]
  /\ c[Len(x) + n] = e
  /\ SubSeq(c, 1, Len(x)) = x
  /\ \A j \in 1..n : SubSeq(c, 1, Len(x) + j - 1) = x \o SubSeq(d, 1, j - 1)

(* Part of a draft and one more token is a sequence of tokens. *)
LEMMA DraftThenTokenElements ==
  ASSUME NEW S, NEW x \in Seq(S), NEW d \in Seq(S), NEW n \in 1..Len(d), NEW e \in S
  PROVE  DraftThenToken(S, x, d, n, e)
<1>1. Len(x) \in Nat /\ Len(d) \in Nat /\ n \in 1..(Len(d) + 1)
  BY LenProperties
<1>2. PICK s : s = SubSeq(d, 1, n - 1)
  OBVIOUS
<1>3. PICK y : y = x \o s
  OBVIOUS
<1>4. PICK c : c = Append(y, e)
  OBVIOUS
<1>5. /\ s \in Seq(S) /\ Len(s) = n - 1
      /\ y \in Seq(S) /\ Len(y) = Len(x) + n - 1
      /\ \A i \in 1..Len(x) : y[i] = x[i]
      /\ \A i \in 1..(n - 1) : y[Len(x) + i] = d[i]
  BY <1>1, <1>2, <1>3, PrefixElements
<1>6. /\ c \in Seq(S) /\ Len(c) = Len(y) + 1
      /\ \A i \in 1..Len(y) : c[i] = y[i]
      /\ c[Len(y) + 1] = e
  BY <1>4, <1>5, AppendProperties
<1>7. Len(c) = Len(x) + n /\ c[Len(x) + n] = e
  BY <1>1, <1>5, <1>6
<1>8. \A i \in 1..Len(x) : c[i] = x[i]
  <2>1. \A i \in 1..Len(x) : i \in 1..Len(y)
    BY <1>1, <1>5
  <2> QED BY <1>5, <1>6, <2>1
<1>9. \A i \in 1..(n - 1) : c[Len(x) + i] = d[i]
  <2>1. \A i \in 1..(n - 1) : Len(x) + i \in 1..Len(y)
    BY <1>1, <1>5
  <2> QED BY <1>5, <1>6, <2>1
<1>10. x \o Append(s, e) = c /\ Len(Append(s, e)) = n
  <2>1. Append(s, e) = s \o <<e>> /\ Append(y, e) = y \o <<e>>
    BY <1>5, AppendIsConcat, Zenon
  <2>2. <<e>> \in Seq(S) /\ s \in Seq(S)
    BY <1>5
  <2>3. (x \o s) \o <<e>> = x \o (s \o <<e>>)
    BY <2>2, ConcatAssociative, SMTT(60)
  <2>4. Len(Append(s, e)) = Len(s) + 1
    BY <1>5, AppendProperties, Zenon
  <2>5. Len(Append(s, e)) = n
    BY <1>1, <1>5, <2>4
  <2> QED BY <1>3, <1>4, <2>1, <2>3, <2>5
<1>11. \A i \in 1..Len(c) : c[i] \in S
  BY <1>6, ElementOfSeq
<1>12. ASSUME NEW j \in 1..n
       PROVE  SubSeq(c, 1, Len(x) + j - 1) = x \o SubSeq(d, 1, j - 1)
  <2>1. PICK z : z = x \o SubSeq(d, 1, j - 1)
    OBVIOUS
  <2>2. /\ z \in Seq(S) /\ Len(z) = Len(x) + j - 1
        /\ \A i \in 1..Len(x) : z[i] = x[i]
        /\ \A i \in 1..(j - 1) : z[Len(x) + i] = d[i]
    BY <1>1, <2>1, PrefixElements
  <2>3. \A i \in 1..(Len(x) + j - 1) : c[i] \in S
    BY <1>1, <1>7, <1>11
  <2>4. /\ SubSeq(c, 1, Len(x) + j - 1) \in Seq(S)
        /\ Len(SubSeq(c, 1, Len(x) + j - 1)) = Len(x) + j - 1
        /\ \A i \in 1..(Len(x) + j - 1) : SubSeq(c, 1, Len(x) + j - 1)[i] = c[i]
    BY <1>1, <2>3, SubSeqProperties
  <2>5. ASSUME NEW i \in 1..(Len(x) + j - 1)
        PROVE  c[i] = z[i]
    <3>1. CASE i <= Len(x)
      <4>1. i \in 1..Len(x)
        BY <1>1, <3>1
      <4> QED BY <1>8, <2>2, <4>1
    <3>2. CASE i > Len(x)
      <4>1. PICK m : m = i - Len(x)
        OBVIOUS
      <4>2. m \in 1..(j - 1) /\ m \in 1..(n - 1) /\ i = Len(x) + m
        BY <1>1, <3>2, <4>1
      <4> QED BY <1>9, <2>2, <4>2
    <3> QED BY <1>1, <3>1, <3>2
  <2>6. SubSeq(c, 1, Len(x) + j - 1) = z
    BY <2>2, <2>4, <2>5, SeqEqual
  <2> QED BY <2>1, <2>6
<1>13. SubSeq(c, 1, Len(x)) = x
  <2>1. \A i \in 1..Len(x) : c[i] \in S
    BY <1>1, <1>7, <1>11
  <2>2. /\ SubSeq(c, 1, Len(x)) \in Seq(S) /\ Len(SubSeq(c, 1, Len(x))) = Len(x)
        /\ \A i \in 1..Len(x) : SubSeq(c, 1, Len(x))[i] = c[i]
    BY <1>1, <2>1, SubSeqProperties
  <2> QED BY <1>8, <2>2, SeqEqual
<1> QED BY <1>2, <1>3, <1>4, <1>6, <1>7, <1>9, <1>10, <1>12, <1>13 DEF DraftThenToken

(* With the verifier's predictions, a commit appends greedy tokens only and
   ends at exactly the tokens the adopted checkpoint absorbed. *)
LEMMA CommitIsGreedy ==
  ASSUME NEW q, WellFormed(q), NEW d,
         \A j \in 1..q.block_size : d.positions[j].predicted = Prediction(q, j)
  PROVE  LET n == CommitLength(d, q)
             c == q.context \o CommittedTokens(d, q)
         IN  /\ n \in 1..q.block_size
             /\ Len(CommittedTokens(d, q)) = n
             /\ c = Absorbed(q, n)
             /\ GreedyContinuation(q.context, c)
<1>1. /\ q.context \in Seq(Token) /\ Len(q.context) \in Nat
      /\ q.draft \in Seq(Token) /\ Len(q.draft) = q.block_size
      /\ q.block_size \in Nat \ {0}
  BY ContextsAreSequences, DraftsAreSequences, ConstantsAssumption
     DEF WellFormed, Request
<1>2. PICK n : n = CommitLength(d, q)
  OBVIOUS
<1>3. /\ n \in 1..q.block_size
      /\ \A i \in 1..(n - 1) : q.draft[i] = d.positions[i].predicted
  BY <1>1, <1>2, CommitLengthProperties
<1>4. PICK e : e = Prediction(q, n)
  OBVIOUS
<1>5. e \in Token
  BY <1>3, <1>4, VerifierContexts
<1>6. PICK c : c = Append(q.context \o SubSeq(q.draft, 1, n - 1), e)
  OBVIOUS
<1>7. /\ q.context \o Append(SubSeq(q.draft, 1, n - 1), e) = c
      /\ Len(Append(SubSeq(q.draft, 1, n - 1), e)) = n
      /\ Len(c) = Len(q.context) + n
      /\ \A i \in 1..(n - 1) : c[Len(q.context) + i] = q.draft[i]
      /\ c[Len(q.context) + n] = e
      /\ SubSeq(c, 1, Len(q.context)) = q.context
      /\ \A j \in 1..n : SubSeq(c, 1, Len(q.context) + j - 1) = Before(q, j)
  <2>1. n \in 1..Len(q.draft)
    BY <1>1, <1>3
  <2>2. q.context \in Seq(Token) /\ q.draft \in Seq(Token)
    BY <1>1
  <2>3. DraftThenToken(Token, q.context, q.draft, n, e)
    BY <1>5, <2>1, <2>2, DraftThenTokenElements
  <2> QED BY <1>6, <2>3 DEF DraftThenToken, Before
<1>8. CommittedTokens(d, q) = Append(SubSeq(q.draft, 1, n - 1), e)
  BY <1>2, <1>3, <1>4 DEF CommittedTokens
<1>9. Absorbed(q, n) = c
  BY <1>4, <1>6 DEF Absorbed, Before
<1>10. ASSUME NEW i \in (Len(q.context) + 1)..Len(c)
       PROVE  c[i] = Native(SubSeq(c, 1, i - 1))
  <2>1. PICK j : j = i - Len(q.context)
    OBVIOUS
  <2>2. j \in 1..n /\ j \in 1..q.block_size /\ i = Len(q.context) + j
        /\ i - 1 = Len(q.context) + j - 1 /\ (j # n => j \in 1..(n - 1))
    <3>1. n \in Nat /\ n <= q.block_size
      BY <1>1, <1>3
    <3>2. i \in (Len(q.context) + 1)..(Len(q.context) + n)
      BY <1>7
    <3>3. i \in Int /\ Len(q.context) + 1 <= i /\ i <= Len(q.context) + n
      BY <1>1, <3>1, <3>2
    <3>4. j \in 1..n /\ i = Len(q.context) + j
      BY <1>1, <2>1, <3>1, <3>3
    <3>5. j \in Nat /\ 1 <= j /\ j <= n
      BY <3>1, <3>4
    <3> QED BY <1>1, <3>1, <3>4, <3>5
  <2>3. c[i] = Prediction(q, j)
    <3>1. CASE j = n
      BY <1>4, <1>7, <2>2, <3>1
    <3>2. CASE j # n
      BY <1>3, <1>7, <2>2, <3>2
    <3> QED BY <3>1, <3>2
  <2>4. SubSeq(c, 1, i - 1) = Before(q, j)
    BY <1>7, <2>2
  <2> QED BY <2>3, <2>4 DEF Prediction
<1>11. GreedyContinuation(q.context, c)
  <2>1. Len(q.context) <= Len(c)
    BY <1>1, <1>3, <1>7
  <2> QED BY <1>7, <1>10, <2>1 DEF GreedyContinuation
<1> QED BY <1>2, <1>3, <1>7, <1>8, <1>9, <1>11
-----------------------------------------------------------------------------
(* The inductive invariant *)

(* Every request handed to the verifier stays well formed. *)
LEMMA RequestsAreWellFormed ==
  ASSUME TypeOK, RequestsInv, NEW q \in requests
  PROVE  WellFormed(q)
<1>1. q \in Request
  BY DEF TypeOK
<1> QED BY <1>1 DEF RequestsInv, WellFormed

(* An open round is a full record, and its numbers are numbers. *)
LEMMA OpenRound ==
  ASSUME TypeOK, RoundShape, pending # NoRound
  PROVE  /\ pending \in Round
         /\ pending.block_size \in Nat \ {0} /\ pending.block_size \in BlockSizes
         /\ pending.request_id \in 1..MaxRounds
         /\ pending.base_context_len = Len(context)
         /\ pending.base_position = position
         /\ pending.base_poisoned = poisoned
         /\ pending.base_checkpoint = checkpoint
<1>1. pending \in Round
  BY DEF TypeOK
<1>2. pending.block_size \in BlockSizes /\ pending.request_id \in 1..MaxRounds
  BY <1>1 DEF Round
<1>3. pending.block_size \in Nat \ {0}
  BY <1>2, ConstantsAssumption
<1> QED BY <1>1, <1>2, <1>3 DEF RoundShape

(* A new session satisfies the invariant. *)
LEMMA InitInvariant == Init => IInv
<1> SUFFICES ASSUME Init PROVE IInv
  OBVIOUS
<1>1. context \in Contexts /\ context \in Seq(Token) /\ Len(context) \in 0..MaxSeqLen
  <2>1. context \in Contexts
    BY ConstantsAssumption DEF Init
  <2> QED BY <2>1, ContextsAreSequences, LenProperties, ConstantsAssumption
<1>2. store \in Seq(Contexts) /\ Len(store) = 1 /\ store[1] = context
  BY <1>1 DEF Init
<1>3. TypeOK
  BY <1>1, <1>2, ConstantsAssumption DEF Init, TypeOK
<1>4. RoundShape /\ RequestsInv /\ RoundInv /\ RepliesInv
  BY DEF Init, RoundShape, RequestsInv, RoundInv, RepliesInv
<1>5. CheckpointInv
  BY <1>2 DEF Init, CheckpointInv, CheckpointMatchesContext
<1>6. CommittedIsGreedy
  <2>1. SubSeq(context, 1, Len(context)) = context
    BY <1>1, SubSeqFull
  <2>2. Len(context) \in Nat
    BY <1>1, ConstantsAssumption
  <2>3. GreedyContinuation(context, context)
    BY <2>1, <2>2 DEF GreedyContinuation
  <2> QED BY <2>3 DEF Init, CommittedIsGreedy
<1> QED BY <1>3, <1>4, <1>5, <1>6 DEF IInv

(* Abandoning a round gives back exactly the state it started from. *)
LEMMA RollbackRestores ==
  ASSUME IInv, pending # NoRound, RollbackPending
  PROVE  /\ UNCHANGED <<context, position, poisoned, checkpoint>>
         /\ pending' = NoRound /\ phase' = "ready"
<1>1. context \in Seq(Token)
  BY ContextsAreSequences DEF IInv, TypeOK
<1>2. SubSeq(context, 1, Len(context)) = context
  BY <1>1, SubSeqFull
<1> QED BY <1>2, OpenRound DEF IInv, RollbackPending

(* The invariant survives an abandoned round. *)
LEMMA RollbackStep ==
  ASSUME IInv, pending # NoRound, RollbackPending,
         UNCHANGED <<next_request_id, requests, backend>>
  PROVE  IInv'
<1>1. /\ UNCHANGED <<context, position, poisoned, checkpoint, next_request_id,
                     requests, replies, store>>
      /\ pending' = NoRound /\ phase' = "ready"
  BY RollbackRestores DEF backend
<1>2. TypeOK'
  BY <1>1 DEF IInv, TypeOK
<1>3. RoundShape' /\ RoundInv'
  BY <1>1 DEF IInv, RoundShape, RoundInv
<1>4. RequestsInv' /\ CheckpointInv'
  BY <1>1 DEF IInv, RequestsInv, CheckpointInv, CheckpointMatchesContext
<1>5. RepliesInv'
  BY <1>1 DEF IInv, RepliesInv, HonestFrom
<1>6. CommittedIsGreedy'
  BY <1>1 DEF IInv, CommittedIsGreedy
<1> QED BY <1>2, <1>3, <1>4, <1>5, <1>6 DEF IInv

(* Opening a round. *)
LEMMA BeginRoundStep ==
  ASSUME IInv, NEW k \in BlockSizes, BeginRound(k)
  PROVE  IInv'
<1>1. /\ phase = "ready" /\ phase' = "drafting"
      /\ position + k <= MaxSeqLen
      /\ next_request_id <= MaxRounds
      /\ next_request_id' = next_request_id + 1
      /\ UNCHANGED <<context, position, poisoned, checkpoint, requests, replies, store>>
      /\ pending' = [request_id |-> next_request_id, block_size |-> k, draft |-> <<>>,
                     request |-> NoRequest, base_context_len |-> Len(context),
                     base_position |-> position, base_poisoned |-> poisoned,
                     base_checkpoint |-> checkpoint]
  BY DEF BeginRound, backend
<1>2. /\ position \in Nat /\ Len(store) \in Nat /\ next_request_id \in 1..MaxRounds
      /\ position = Len(context) /\ checkpoint \in Nat \ {0}
      /\ MaxSeqLen \in Nat /\ MaxRounds \in Nat
  BY <1>1, ConstantsAssumption, LenProperties DEF IInv, TypeOK, RoundShape
<1>3. pending' \in Round /\ pending' # NoRound
  BY <1>1, <1>2, NoneAssumption DEF Round, IInv, TypeOK
<1>4. TypeOK'
  BY <1>1, <1>2, <1>3 DEF IInv, TypeOK
<1>5. RoundShape'
  BY <1>1, <1>2, <1>3 DEF RoundShape
<1>6. RequestsInv'
  <2>1. \A q \in requests : q.request_id \in Nat
    BY ConstantsAssumption DEF IInv, TypeOK, Request
  <2> QED BY <1>1, <1>2, <2>1 DEF IInv, RequestsInv
<1>7. RoundInv'
  <2>1. \A q \in requests : q.request_id < next_request_id /\ q.request_id \in Nat
    BY ConstantsAssumption DEF IInv, RequestsInv, TypeOK, Request
  <2>2. \A q \in requests : q.request_id # next_request_id
    BY <1>2, <2>1
  <2> QED BY <1>1, <2>2 DEF RoundInv
<1>8. CheckpointInv' /\ RepliesInv' /\ CommittedIsGreedy'
  BY <1>1 DEF IInv, CheckpointInv, CheckpointMatchesContext, RepliesInv, HonestFrom, CommittedIsGreedy
<1> QED BY <1>4, <1>5, <1>6, <1>7, <1>8 DEF IInv

(* Accepting a draft. *)
LEMMA SubmitDraftStep ==
  ASSUME IInv, NEW d \in DraftInputs, SubmitDraft(d)
  PROVE  IInv'
<1>1. /\ phase = "drafting" /\ phase' = "awaiting_verification"
      /\ pending' = [pending EXCEPT !.draft = d]
      /\ UNCHANGED <<context, position, poisoned, checkpoint, next_request_id, requests,
                     replies, store>>
  BY DEF SubmitDraft, backend
<1>2. pending # NoRound /\ pending.request = NoRequest
  BY <1>1 DEF IInv, RoundShape
<1>3. d \in Drafts /\ Len(d) = pending.block_size
  <2>1. PICK k \in BlockSizes : d \in [1..k -> Token \cup {VocabSize}]
    BY DEF DraftInputs
  <2>2. \A i \in 1..k : d[i] \in Token
    BY <2>1, ConstantsAssumption DEF SubmitDraft, LegalDraft, Token
  <2>3. d \in [1..k -> Token]
    BY <2>1, <2>2
  <2> QED BY <2>3 DEF Drafts, SubmitDraft, LegalDraft
<1>4. pending \in Round
  BY <1>2, OpenRound DEF IInv
<1>5. /\ pending' \in Round /\ pending' # NoRound /\ pending'.draft = d
      /\ pending'.request = NoRequest
      /\ pending'.request_id = pending.request_id
      /\ pending'.block_size = pending.block_size
      /\ pending'.base_context_len = pending.base_context_len
      /\ pending'.base_position = pending.base_position
      /\ pending'.base_poisoned = pending.base_poisoned
      /\ pending'.base_checkpoint = pending.base_checkpoint
  BY <1>1, <1>2, <1>3, <1>4, NoneAssumption DEF Round
<1>6. TypeOK'
  BY <1>1, <1>5 DEF IInv, TypeOK
<1>7. RoundShape'
  BY <1>1, <1>2, <1>5 DEF IInv, RoundShape
<1>8. RequestsInv' /\ CheckpointInv' /\ RepliesInv' /\ CommittedIsGreedy'
  BY <1>1 DEF IInv, RequestsInv, CheckpointInv, CheckpointMatchesContext, RepliesInv, HonestFrom,
              CommittedIsGreedy
<1>9. RoundInv'
  BY <1>1, <1>2, <1>3, <1>5 DEF IInv, RoundInv
<1> QED BY <1>6, <1>7, <1>8, <1>9 DEF IInv

(* Handing the request to the verifier. *)
LEMMA MakeRequestStep ==
  ASSUME IInv, MakeRequest
  PROVE  IInv'
<1>1. PICK q : q = [request_id |-> pending.request_id, block_size |-> pending.block_size,
                    base_position |-> pending.base_position,
                    base_checkpoint |-> pending.base_checkpoint,
                    context |-> context, draft |-> pending.draft]
  OBVIOUS
<1>2. /\ phase = "awaiting_verification" /\ phase' = "verifying"
      /\ pending' = [pending EXCEPT !.request = q]
      /\ requests' = requests \cup {q}
      /\ UNCHANGED <<context, position, poisoned, checkpoint, next_request_id, replies,
                     store>>
  BY <1>1 DEF MakeRequest, backend
<1>3. pending # NoRound
  BY <1>2 DEF IInv, RoundShape
<1>4. /\ pending \in Round /\ pending.block_size \in BlockSizes
      /\ pending.block_size \in Nat \ {0}
      /\ pending.request_id \in 1..MaxRounds
      /\ pending.base_position = position /\ pending.base_checkpoint = checkpoint
      /\ pending.base_context_len = Len(context) /\ pending.base_poisoned = poisoned
      /\ position = Len(context)
      /\ pending.request_id = next_request_id - 1
      /\ pending.request_id \in Nat /\ next_request_id \in Nat
  BY <1>3, OpenRound, ConstantsAssumption DEF IInv, RoundShape, TypeOK
<1>5. /\ position + pending.block_size <= MaxSeqLen
      /\ pending.draft \in Drafts /\ Len(pending.draft) = pending.block_size
      /\ \A p \in requests : p.request_id # pending.request_id
  BY <1>2, <1>3 DEF IInv, RoundInv
<1>6. q \in Request /\ q # NoRequest
  BY <1>1, <1>4, <1>5, NoneAssumption DEF Request, IInv, TypeOK, Round
<1>7. /\ pending' \in Round /\ pending' # NoRound /\ pending'.request = q
      /\ pending'.draft = pending.draft
      /\ pending'.request_id = pending.request_id
      /\ pending'.block_size = pending.block_size
      /\ pending'.base_context_len = pending.base_context_len
      /\ pending'.base_position = pending.base_position
      /\ pending'.base_poisoned = pending.base_poisoned
      /\ pending'.base_checkpoint = pending.base_checkpoint
  BY <1>2, <1>4, <1>6, NoneAssumption DEF Round
<1>8. TypeOK'
  BY <1>2, <1>6, <1>7 DEF IInv, TypeOK
<1>9. RoundShape'
  BY <1>2, <1>4, <1>6, <1>7 DEF RoundShape
<1>10. RequestsInv'
  <2>1. /\ q.request_id = pending.request_id /\ Len(q.draft) = q.block_size
        /\ Len(q.context) = q.base_position
        /\ q.base_position + q.block_size <= MaxSeqLen
        /\ q.base_checkpoint <= Len(store)
    BY <1>1, <1>4, <1>5 DEF IInv, TypeOK
  <2>2. q.request_id < next_request_id
    BY <1>4, <2>1
  <2> QED BY <1>2, <1>5, <2>1, <2>2 DEF IInv, RequestsInv
<1>11. RoundInv'
  BY <1>1, <1>2, <1>4, <1>5, <1>7 DEF RoundInv
<1>12. CheckpointInv' /\ CommittedIsGreedy'
  BY <1>2 DEF IInv, CheckpointInv, CheckpointMatchesContext, CommittedIsGreedy
<1>13. RepliesInv'
  BY <1>2 DEF IInv, RepliesInv, HonestFrom
<1> QED BY <1>8, <1>9, <1>10, <1>11, <1>12, <1>13 DEF IInv

(* The verifier answers a request: it only adds checkpoints, and its reply
   describes them. *)
LEMMA VerifyStep ==
  ASSUME IInv, NEW q \in requests, Verify(q)
  PROVE  IInv' /\ context' = context /\ store'[checkpoint'] = store[checkpoint]
<1>1. PICK a : a = [i \in 1..q.block_size |-> Absorbed(q, i)]
  OBVIOUS
<1>2. /\ replies' = replies \cup {HonestReply(q, Len(store))}
      /\ store' = store \o a
      /\ UNCHANGED <<context, position, poisoned, checkpoint, phase, pending,
                     next_request_id, requests>>
  BY <1>1 DEF Verify, session
<1>3. WellFormed(q) /\ q.block_size \in Nat \ {0}
  <2>1. WellFormed(q)
    BY RequestsAreWellFormed DEF IInv
  <2> QED BY <2>1, ConstantsAssumption DEF WellFormed, Request
<1>4. a \in Seq(Contexts) /\ Len(a) = q.block_size
  <2>1. \A i \in 1..q.block_size : Absorbed(q, i) \in Contexts
    BY <1>3, VerifierContexts
  <2> QED BY <1>1, <1>3, <2>1
<1>5. store \in Seq(Contexts) /\ Len(store) \in Nat /\ checkpoint \in 1..Len(store)
  BY LenProperties DEF IInv, TypeOK
<1>6. /\ store' \in Seq(Contexts)
      /\ Len(store') = Len(store) + q.block_size
      /\ \A i \in 1..Len(store) : store'[i] = store[i]
      /\ \A i \in 1..q.block_size : store'[Len(store) + i] = a[i]
  <2>1. a \in Seq(Contexts) /\ store \in Seq(Contexts)
    BY <1>4, <1>5
  <2>2. /\ store \o a \in Seq(Contexts)
        /\ Len(store \o a) = Len(store) + Len(a)
        /\ \A i \in 1..Len(store) : (store \o a)[i] = store[i]
        /\ \A i \in 1..Len(a) : (store \o a)[Len(store) + i] = a[i]
    BY <2>1, ConcatElements
  <2> QED BY <1>2, <1>4, <2>2
<1>7. HonestReply(q, Len(store)) \in Reply
  BY <1>3, <1>5, HonestReplyType
<1>8. TypeOK'
  BY <1>2, <1>3, <1>5, <1>6, <1>7 DEF IInv, TypeOK
<1>9. RoundShape' /\ RoundInv'
  BY <1>2 DEF IInv, RoundShape, RoundInv
<1>10. RequestsInv'
  <2>1. \A p \in requests : p.base_checkpoint \in Nat
    BY DEF IInv, TypeOK, Request
  <2>2. \A p \in requests : p.base_checkpoint <= Len(store')
    BY <1>3, <1>5, <1>6, <2>1 DEF IInv, RequestsInv
  <2> QED BY <1>2, <2>2 DEF IInv, RequestsInv
<1>11. CheckpointInv' /\ store'[checkpoint'] = store[checkpoint]
  BY <1>2, <1>5, <1>6 DEF IInv, CheckpointInv, CheckpointMatchesContext
<1>12. CommittedIsGreedy'
  BY <1>2 DEF IInv, CommittedIsGreedy
<1>13. RepliesInv'
  <2> SUFFICES ASSUME NEW r \in replies'
               PROVE  \E p \in requests : \E f \in 0..Len(store') : HonestFrom(r, p, f)'
    BY <1>2 DEF RepliesInv
  <2>1. CASE r \in replies
    <3>1. PICK p \in requests, f \in 0..Len(store) : HonestFrom(r, p, f)
      BY <2>1 DEF IInv, RepliesInv
    <3>2. p.block_size \in Nat \ {0}
      BY ConstantsAssumption DEF IInv, TypeOK, Request
    <3>3. f \in 0..Len(store') /\ f + p.block_size <= Len(store')
      BY <1>3, <1>5, <1>6, <3>1, <3>2 DEF HonestFrom
    <3>4. ASSUME NEW i \in 1..p.block_size
          PROVE  store'[f + i] = Absorbed(p, i)
      <4>1. f + i \in 1..Len(store)
        BY <1>5, <3>1, <3>2 DEF HonestFrom
      <4>2. store[f + i] = Absorbed(p, i)
        BY <3>1 DEF HonestFrom
      <4> QED BY <1>6, <4>1, <4>2
    <3> QED BY <3>1, <3>3, <3>4 DEF HonestFrom
  <2>2. CASE r = HonestReply(q, Len(store))
    <3>1. PICK f : f = Len(store)
      OBVIOUS
    <3>2. f \in 0..Len(store') /\ f + q.block_size <= Len(store')
      BY <1>3, <1>5, <1>6, <3>1
    <3>3. \A i \in 1..q.block_size : store'[f + i] = Absorbed(q, i)
      BY <1>1, <1>6, <3>1
    <3>4. HonestFrom(r, q, f)'
      BY <2>2, <3>1, <3>2, <3>3 DEF HonestFrom
    <3> QED BY <3>2, <3>4
  <2> QED BY <1>2, <2>1, <2>2
<1> QED BY <1>2, <1>8, <1>9, <1>10, <1>11, <1>12, <1>13 DEF IInv

(* A damaged reply still names the request it answers. *)
LEMMA DeliveredIdentity ==
  ASSUME NEW q, NEW f \in Nat, NEW d \in Delivered(HonestReply(q, f))
  PROVE  d.request_id = q.request_id
<1>1. PICK r : r = HonestReply(q, f)
  OBVIOUS
<1>2. /\ r = [request_id |-> r.request_id, profile |-> r.profile,
              block_size |-> r.block_size, base_position |-> r.base_position,
              base_checkpoint |-> r.base_checkpoint, positions |-> r.positions]
      /\ r.request_id = q.request_id
  BY <1>1 DEF HonestReply
<1>3. \/ d = r
      \/ d = [r EXCEPT !.profile = "drift"]
      \/ d = [r EXCEPT !.positions = SubSeq(@, 1, Len(@) - 1)]
      \/ \E i \in DOMAIN r.positions : \E p \in DamagedPosition(r, i) :
           d = [r EXCEPT !.positions[i] = p]
  BY <1>1 DEF Delivered
<1> QED BY <1>2, <1>3

(* What an accepted reply does to the session, whichever reply it is. *)
LEMMA CommitEffect ==
  ASSUME IInv, NEW r \in replies, NEW d \in Delivered(r), CommitReply(d)
  PROVE  /\ pending # NoRound /\ phase = "verifying"
         /\ WellFormed(pending.request)
         /\ pending.request.context = context /\ pending.request.draft = pending.draft
         /\ pending.request.block_size = pending.block_size
         /\ \A j \in 1..pending.block_size :
              d.positions[j].predicted = Prediction(pending.request, j)
         /\ CommitLength(d, pending.request) \in 1..pending.block_size
         /\ context' \in Contexts
         /\ Len(context') = Len(context) + CommitLength(d, pending.request)
         /\ position' = Len(context')
         /\ GreedyContinuation(context, context')
         /\ checkpoint' \in 1..Len(store)
         /\ ~AliasedReplies => store[checkpoint'] = context'
<1>1. PICK q : q = pending.request
  OBVIOUS
<1>2. /\ phase = "verifying" /\ ValidReply(d, q)
      /\ context' = context \o CommittedTokens(d, q)
      /\ position' = d.positions[CommitLength(d, q)].position_after
      /\ checkpoint' = d.positions[CommitLength(d, q)].checkpoint_id
  BY <1>1 DEF CommitReply, Accepts, CommitPosition
<1>3. pending # NoRound
  BY <1>2 DEF IInv, RoundShape
<1>4. /\ q \in requests
      /\ q.context = context /\ q.draft = pending.draft
      /\ q.block_size = pending.block_size
      /\ q.base_position = Len(context)
  BY <1>1, <1>2, <1>3 DEF IInv, RoundInv, RoundShape
<1>5. WellFormed(q)
  BY <1>4, RequestsAreWellFormed DEF IInv
<1>6. PICK p \in requests, f \in 0..Len(store) : HonestFrom(r, p, f)
  BY DEF IInv, RepliesInv
<1>7. f \in Nat /\ Len(store) \in Nat
  BY LenProperties DEF IInv, TypeOK
<1>8. p = q
  <2>1. d.request_id = p.request_id
    BY <1>6, <1>7, DeliveredIdentity DEF HonestFrom
  <2>2. d.request_id = q.request_id
    BY <1>2 DEF ValidReply, SameIdentity
  <2> QED BY <1>4, <2>1, <2>2 DEF IInv, RequestsInv
<1>9. \A j \in 1..q.block_size :
        /\ d.positions[j].predicted = Prediction(q, j)
        /\ \/ d.positions[j].checkpoint_id = f + j
           \/ AliasedReplies /\ d.positions[j].checkpoint_id \in DOMAIN store
        /\ d.positions[j].position_after = q.base_position + j
  <2>1. d \in Delivered(HonestReply(q, f))
    BY <1>6, <1>8 DEF HonestFrom
  <2> QED BY <1>2, <1>5, <1>7, <2>1, ValidatedRepliesAreHonest
<1>10. PICK n : n = CommitLength(d, q)
  OBVIOUS
<1>11. /\ n \in 1..q.block_size
       /\ context' = Absorbed(q, n)
       /\ GreedyContinuation(context, context')
  BY <1>2, <1>4, <1>5, <1>9, <1>10, CommitIsGreedy
<1>12. context' \in Contexts /\ Len(context') = Len(context) + n
  BY <1>4, <1>5, <1>11, VerifierContexts
<1>13. position' = Len(context')
  BY <1>2, <1>4, <1>9, <1>10, <1>11, <1>12
<1>14. /\ checkpoint' \in 1..Len(store)
       /\ ~AliasedReplies => store[checkpoint'] = context'
  <2>1. \/ checkpoint' = f + n
        \/ AliasedReplies /\ checkpoint' \in DOMAIN store
    BY <1>2, <1>9, <1>10, <1>11
  <2>2. store[f + n] = Absorbed(q, n) /\ f + q.block_size <= Len(store)
    BY <1>6, <1>8, <1>11 DEF HonestFrom
  <2>3. q.block_size \in Nat
    BY <1>5, ConstantsAssumption DEF WellFormed, Request
  <2>4. f + n \in 1..Len(store)
    BY <1>7, <1>11, <2>2, <2>3
  <2>5. DOMAIN store = 1..Len(store)
    BY LenProperties DEF IInv, TypeOK
  <2> QED BY <1>11, <2>1, <2>2, <2>4, <2>5
<1> QED BY <1>1, <1>2, <1>3, <1>4, <1>5, <1>9, <1>10, <1>11, <1>12, <1>13, <1>14

(* A commit preserves the invariant. *)
LEMMA CommitReplyStep ==
  ASSUME IInv, NEW r \in replies, NEW d \in Delivered(r), CommitReply(d)
  PROVE  IInv'
<1>1. /\ poisoned' = FALSE /\ pending' = NoRound /\ phase' = "ready"
      /\ UNCHANGED <<next_request_id, requests, replies, store>>
  BY DEF CommitReply, backend
<1>2. /\ context' \in Contexts
      /\ position' = Len(context')
      /\ GreedyContinuation(context, context')
      /\ checkpoint' \in 1..Len(store)
      /\ ~AliasedReplies => store[checkpoint'] = context'
  BY CommitEffect
<1>3. position' \in 0..MaxSeqLen
  BY <1>2, ContextsAreSequences, LenProperties, ConstantsAssumption
<1>4. TypeOK'
  BY <1>1, <1>2, <1>3 DEF IInv, TypeOK
<1>5. RoundShape' /\ RoundInv'
  BY <1>1, <1>2 DEF RoundShape, RoundInv
<1>6. RequestsInv' /\ CheckpointInv'
  BY <1>1, <1>2 DEF IInv, RequestsInv, CheckpointInv, CheckpointMatchesContext
<1>7. RepliesInv'
  BY <1>1 DEF IInv, RepliesInv, HonestFrom
<1>8. CommittedIsGreedy'
  <2>1. PICK p \in Prompts : GreedyContinuation(p, context)
    BY DEF IInv, CommittedIsGreedy
  <2>2. p \in Contexts /\ context \in Contexts
    BY ConstantsAssumption DEF IInv, TypeOK
  <2>3. GreedyContinuation(p, context')
    BY <1>2, <2>1, <2>2, GreedyContinuationTransitive
  <2> QED BY <2>3 DEF CommittedIsGreedy
<1> QED BY <1>4, <1>5, <1>6, <1>7, <1>8 DEF IInv

(* A round is open whenever a method can abandon it. *)
LEMMA AbandonedRoundIsOpen ==
  ASSUME IInv, NEW d,
         RefuseDraft(d) \/ RejectReply(d) \/ AbortRound
  PROVE  /\ pending # NoRound /\ RollbackPending
         /\ UNCHANGED <<next_request_id, requests, backend>>
BY DEF IInv, RoundShape, RefuseDraft, RejectReply, AbortRound

(* Every step preserves the invariant. *)
LEMMA NextInvariant ==
  ASSUME IInv, [Next]_vars
  PROVE  IInv'
<1>1. ASSUME NEW k \in BlockSizes, BeginRound(k) PROVE IInv'
  BY <1>1, BeginRoundStep
<1>2. ASSUME NEW d \in DraftInputs, SubmitDraft(d) PROVE IInv'
  BY <1>2, SubmitDraftStep
<1>3. ASSUME NEW d \in DraftInputs, RefuseDraft(d) PROVE IInv'
  BY <1>3, AbandonedRoundIsOpen, RollbackStep
<1>4. CASE MakeRequest
  BY <1>4, MakeRequestStep
<1>5. ASSUME NEW q \in requests, Verify(q) PROVE IInv'
  BY <1>5, VerifyStep
<1>6. ASSUME NEW r \in replies, NEW d \in Delivered(r), CommitReply(d) PROVE IInv'
  BY <1>6, CommitReplyStep
<1>7. ASSUME NEW r \in replies, NEW d \in Delivered(r), RejectReply(d) PROVE IInv'
  BY <1>7, AbandonedRoundIsOpen, RollbackStep
<1>8. CASE AbortRound
  BY <1>8, AbandonedRoundIsOpen, RollbackStep
<1>9. CASE UNCHANGED vars
  <2>1. UNCHANGED <<context, position, poisoned, checkpoint, phase, pending,
                    next_request_id, requests, replies, store>>
    BY <1>9 DEF vars, session, backend
  <2>2. TypeOK' /\ RoundShape' /\ RoundInv'
    BY <2>1 DEF IInv, TypeOK, RoundShape, RoundInv
  <2>3. RequestsInv' /\ CheckpointInv' /\ CommittedIsGreedy'
    BY <2>1 DEF IInv, RequestsInv, CheckpointInv, CheckpointMatchesContext, CommittedIsGreedy
  <2>4. RepliesInv'
    BY <2>1 DEF IInv, RepliesInv, HonestFrom
  <2> QED BY <2>2, <2>3, <2>4 DEF IInv
<1> QED
  BY <1>1, <1>2, <1>3, <1>4, <1>5, <1>6, <1>7, <1>8, <1>9 DEF Next, FinishResponse

-----------------------------------------------------------------------------
(* The theorems *)

(* The inductive invariant holds of every behaviour, whichever part of a     *)
(* reply is damaged and whichever checkpoints replies name.                  *)
THEOREM Invariance == Spec => []IInv
<1>1. Init => IInv
  BY InitInvariant
<1>2. IInv /\ [Next]_vars => IInv'
  BY NextInvariant
<1> QED BY <1>1, <1>2, PTL DEF Spec

(* Every variable of the session keeps its type.                             *)
THEOREM TypeCorrect == Spec => []TypeOK
<1>1. IInv => TypeOK
  BY DEF IInv
<1> QED BY <1>1, Invariance, PTL

(* begin_round, submit_draft, make_request and finish_response never find    *)
(* the Option fields in a shape their expect() calls do not allow.           *)
THEOREM RoundShapeHolds == Spec => []RoundShape
<1>1. IInv => RoundShape
  BY DEF IInv
<1> QED BY <1>1, Invariance, PTL

(* Whatever the draft profile and the transport do, the committed tokens are *)
(* the FullDepth43 model's own greedy continuation of the prompt.            *)
THEOREM ExactDecoding == Spec => []CommittedIsGreedy
<1>1. IInv => CommittedIsGreedy
  BY DEF IInv
<1> QED BY <1>1, Invariance, PTL

(* The committed checkpoint absorbed exactly the committed tokens, provided  *)
(* no reply names the checkpoint of another state: the session cannot tell   *)
(* such a reply from a true one, the backend contract (cascade.rs:92) rules  *)
(* it out.                                                                   *)
THEOREM CheckpointExact ==
  ASSUME AliasedReplies = FALSE
  PROVE  Spec => []CheckpointMatchesContext
<1>1. IInv => CheckpointMatchesContext
  BY DEF IInv, CheckpointInv
<1> QED BY <1>1, Invariance, PTL

(* A commit takes the longest prefix on which draft and verifier agree, then *)
(* the verifier's token, and no step but a commit touches the context.       *)
THEOREM LongestPrefix == Spec => LongestPrefixCommitted
<1> DEFINE Longest ==
      LET n == Len(context') - Len(context) IN
      /\ n \in 1..pending.block_size
      /\ AgreeingPrefix(n - 1)
      /\ n < pending.block_size => ~Agrees(n)
<1>1. IInv /\ [Next]_vars => [context' # context => Longest]_vars
  <2> SUFFICES ASSUME IInv, Next, context' # context PROVE Longest
    BY DEF vars, session
  <2>1. PICK r \in replies : \E e \in Delivered(r) : CommitReply(e)
    <3>1. ASSUME NEW d, RefuseDraft(d) \/ RejectReply(d) \/ AbortRound PROVE FALSE
      BY <3>1, AbandonedRoundIsOpen, RollbackRestores
    <3> QED BY <3>1 DEF Next, FinishResponse, BeginRound, SubmitDraft, MakeRequest,
                       Verify, session
  <2> PICK d \in Delivered(r) : CommitReply(d)
    BY <2>1
  <2>2. PICK q : q = pending.request
    OBVIOUS
  <2>3. PICK n : n = CommitLength(d, q)
    OBVIOUS
  <2>4. /\ pending # NoRound /\ WellFormed(q)
        /\ q.context = context /\ q.draft = pending.draft
        /\ q.block_size = pending.block_size
        /\ \A j \in 1..pending.block_size : d.positions[j].predicted = Prediction(q, j)
        /\ n \in 1..pending.block_size
        /\ Len(context') = Len(context) + n
    BY <2>1, <2>2, <2>3, CommitEffect
  <2>5. pending.block_size \in Nat \ {0} /\ Len(context) \in Nat
    BY <2>4, OpenRound, ContextsAreSequences, LenProperties DEF IInv, TypeOK
  <2>6. Len(context') - Len(context) = n
    BY <2>4, <2>5
  <2>7. /\ \A i \in 1..(n - 1) : q.draft[i] = d.positions[i].predicted
        /\ n < q.block_size => q.draft[n] # d.positions[n].predicted
    BY <2>3, <2>4, <2>5, CommitLengthProperties
  <2>8. \A i \in 1..pending.block_size :
          Agrees(i) <=> pending.draft[i] = d.positions[i].predicted
    BY <2>4 DEF Agrees, Prediction, Before
  <2>9. AgreeingPrefix(n - 1)
    <3>1. \A i \in 1..(n - 1) : i \in 1..pending.block_size
      BY <2>4, <2>5
    <3> QED BY <2>4, <2>7, <2>8, <3>1 DEF AgreeingPrefix
  <2>10. n < pending.block_size => ~Agrees(n)
    BY <2>4, <2>7, <2>8
  <2> QED BY <2>4, <2>6, <2>9, <2>10
<1> QED BY <1>1, Invariance, PTL DEF Spec, LongestPrefixCommitted

(* Exact Cascade implements the atomic greedy decoder: tokens and recursive  *)
(* state move together, one greedy extension of at most one block at a time. *)
(* Like CheckpointExact it needs replies that name their own checkpoints.    *)
THEOREM RefinesGreedy ==
  ASSUME AliasedReplies = FALSE
  PROVE  Spec => RefinesGreedyDecoding
<1>1. Init => Greedy!GInit
  BY InitInvariant DEF IInv, CheckpointInv, CheckpointMatchesContext, Greedy!GInit
<1>2. IInv /\ [Next]_vars => [Greedy!Commit]_(Greedy!gvars)
  <2> SUFFICES ASSUME IInv, [Next]_vars,
                      ~ UNCHANGED <<context, store[checkpoint]>>
               PROVE  Greedy!Commit
    BY DEF Greedy!gvars
  <2>1. PICK r \in replies : \E e \in Delivered(r) : CommitReply(e)
    <3>1. ASSUME NEW d, RefuseDraft(d) \/ RejectReply(d) \/ AbortRound PROVE FALSE
      BY <3>1, AbandonedRoundIsOpen, RollbackRestores DEF backend
    <3>2. ASSUME NEW q \in requests, Verify(q) PROVE FALSE
      BY <3>2, VerifyStep
    <3> QED BY <3>1, <3>2 DEF Next, FinishResponse, BeginRound, SubmitDraft, MakeRequest,
                       vars, session, backend
  <2> PICK d \in Delivered(r) : CommitReply(d)
    BY <2>1
  <2>2. PICK n : n = CommitLength(d, pending.request)
    OBVIOUS
  <2>3. /\ pending # NoRound
        /\ n \in 1..pending.block_size
        /\ context' \in Contexts
        /\ Len(context') = Len(context) + n
        /\ GreedyContinuation(context, context')
        /\ store[checkpoint'] = context'
        /\ store' = store
    BY <2>1, <2>2, CommitEffect DEF CommitReply, backend
  <2>4. /\ pending.block_size \in Nat /\ pending.block_size \in BlockSizes
        /\ Len(context) \in Nat
    BY <2>3, OpenRound, ContextsAreSequences, LenProperties DEF IInv, TypeOK
  <2>5. MaxBlock \in Nat /\ pending.block_size <= MaxBlock
    BY <2>4, ConstantsAssumption DEF MaxBlock
  <2>6. Len(context') \in (Len(context) + 1)..(Len(context) + MaxBlock)
    BY <2>3, <2>4, <2>5
  <2>7. Len(context') <= MaxSeqLen
    BY <2>3, ContextsAreSequences
  <2> QED BY <2>3, <2>6, <2>7
          DEF Greedy!Commit, Greedy!GreedyExtension, GreedyContinuation
<1> QED BY <1>1, <1>2, Invariance, PTL DEF Spec, RefinesGreedyDecoding, Greedy!GSpec
=============================================================================
