----------------------------- MODULE PageCatalog -----------------------------
(***************************************************************************)
(* The catalogue of expert pages (polaris_meridian_v0/runtime_paging/      *)
(* page_catalog.py): for every routed expert the byte spans, in the weight *)
(* files, of all the tensors that make it up.  Spans that lie next to each *)
(* other are joined, so that a miss costs as few reads as possible.        *)
(*                                                                         *)
(* A tensor is [page, component, file, offset, length]; page stands for    *)
(* the layer and the expert its name matches.  The header is taken as      *)
(* read: which names match, and what the dtypes are, is left out.          *)
(***************************************************************************)
EXTENDS Naturals, SequencesExt

Span(t) == [file |-> t.file, offset |-> t.offset, length |-> t.length]

Before(a, b) == \/ a.file < b.file
                \/ a.file = b.file /\ a.offset < b.offset

(* Mutation: spans are joined although they lie in different files. *)
Adjoins_AnyFile(a, b) == a.offset + a.length = b.offset

Adjoins(a, b) == a.file = b.file /\ a.offset + a.length = b.offset

(* One step of the loop of _coalesce_spans. *)
Join(merged, s) ==
  IF merged # << >> /\ Adjoins(Last(merged), s)
  THEN Append(Front(merged), [Last(merged) EXCEPT !.length = @ + s.length])
  ELSE Append(merged, s)

CoalesceSpans(spans) == FoldLeft(Join, << >>, SetToSortSeq(spans, Before))

-----------------------------------------------------------------------------
(* _catalog: the tensors grouped by page *)

Grouped(tensors, p) == {t \in tensors : t.page = p}
Paged(tensors) == {t.page : t \in tensors}

(* The component signature of a page, which all pages must share. *)
Signature(tensors, p) == {t.component : t \in Grouped(tensors, p)}
UniformComponents(tensors) ==
  \A p, q \in Paged(tensors) : Signature(tensors, p) = Signature(tensors, q)

Catalog(tensors) ==
  [p \in Paged(tensors) |-> CoalesceSpans({Span(t) : t \in Grouped(tensors, p)})]

(* Bytes are added up one entry after the other. *)
Summed(ns) ==
  LET sum[i \in 0..Len(ns)] == IF i = 0 THEN 0 ELSE sum[i - 1] + ns[i]
  IN  sum
Total(ns) == Summed(ns)[Len(ns)]

(* nbytes of an entry, which validate_catalog compares with its spans. *)
NBytes(spans) == Total([i \in DOMAIN spans |-> spans[i].length])

(* build_safetensors_catalog and validate_catalog: what the constructor of  *)
(* the cache accepts.                                                       *)
ValidSpan(fileSize) == [file : DOMAIN fileSize, offset : Nat, length : Nat \ {0}]

Buildable(tensors, fileSize) ==
  /\ tensors # {} /\ IsFiniteSet(tensors)
  /\ \A t \in tensors : t.offset + t.length <= fileSize[t.file]
  /\ UniformComponents(tensors)
  /\ \A p \in Paged(tensors) : Catalog(tensors)[p] \in Seq(ValidSpan(fileSize))

-----------------------------------------------------------------------------
(* PageSource.read: the bytes of the spans one after the other.  A byte is  *)
(* identified by its place.                                                 *)
SpanBytes(s) == [i \in 1..s.length |-> [file |-> s.file, offset |-> s.offset + i - 1]]
ReadSpans(spans) == FlattenSeq([i \in DOMAIN spans |-> SpanBytes(spans[i])])

(* What a page is: every byte of every tensor of the expert, once, in the   *)
(* order of the files.                                                      *)
PageBytes(tensors, p) ==
  SetToSortSeq(
    UNION {{[file |-> t.file, offset |-> b] : b \in t.offset..(t.offset + t.length - 1)} :
             t \in Grouped(tensors, p)},
    Before)
=============================================================================
