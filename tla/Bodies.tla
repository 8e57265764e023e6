------------------------------- MODULE Bodies --------------------------------
(***************************************************************************)
(* policy.py: the walk through the body of a log record, and which bodies  *)
(* pass.  In a mapping the entries are a sequence, as the mappings of      *)
(* Python keep their order.                                                *)
(***************************************************************************)
EXTENDS Records

CONSTANTS
  MaxDepth,      \* mappings inside of each other (8)
  MaxEntries,    \* entries of a mapping (64)
  MaxTotal,      \* entries of all mappings of a body (256)
  MaxBytes       \* length of a body as JSON (8192)

Mapping(entries) == [kind |-> "mapping", entries |-> entries]
Entry(key, body) == [key |-> key, body |-> body]

-----------------------------------------------------------------------------
(* The walk through a body goes down its mappings with a counter of entries *)
(* that all of them share, and stops at the first thing that it refuses.    *)

\* entries: the shared counter; seen: how many values were looked at.
Start == [refused |-> FALSE, entries |-> 0, seen |-> 0]

Look(walk, n) == [walk EXCEPT !.seen = @ + n]
Refuse(walk) == [walk EXCEPT !.refused = TRUE]

\* _sanitize_body_value, of what is no mapping; an array stops at a bad item.
Value(walk, body) ==
  IF body.kind = "array" THEN
    LET bad == SelectInSeq(body.sorts, LAMBDA sort : sort \notin Scalars) IN
    IF Len(body.sorts) > MaxItems THEN Refuse(Look(walk, 1))
    ELSE IF bad # 0 THEN Refuse(Look(walk, 1 + bad))
    ELSE Look(walk, 1 + Len(body.sorts))
  ELSE IF body.sort \in Scalars \cup {"null"} THEN Look(walk, 1) ELSE Refuse(Look(walk, 1))

\* A mapping is counted before any of its values is looked at.
Enter(walk, body, depth) ==
  LET counted == [Look(walk, 1) EXCEPT !.entries = @ + Len(body.entries)] IN
  IF depth >= MaxDepth \/ Len(body.entries) > MaxEntries \/ counted.entries > MaxTotal
  THEN Refuse(counted) ELSE counted

\* Mutant: each mapping counts for itself and what is above it.
RECURSIVE DescendAlone(_, _, _)
DescendAlone(walk, body, depth) ==
  LET entered == Enter(walk, body, depth)
      step(w, entry) ==
        IF w.refused THEN w
        ELSE IF entry.key \in BadKeys THEN Refuse(w)
        ELSE IF entry.body.kind = "mapping"
             THEN [DescendAlone(w, entry.body, depth + 1) EXCEPT !.entries = w.entries]
        ELSE Value(w, entry.body) IN
  IF entered.refused THEN entered ELSE FoldLeft(step, entered, body.entries)

\* Mutant: a mapping is checked and counted when its values have been.
RECURSIVE DescendFirst(_, _, _)
DescendFirst(walk, body, depth) ==
  LET step(w, entry) ==
        IF w.refused THEN w
        ELSE IF entry.body.kind = "mapping" THEN DescendFirst(w, entry.body, depth + 1)
        ELSE Value(w, entry.body)
      walked == FoldLeft(step, walk, body.entries) IN
  IF walked.refused THEN walked
  ELSE IF \E i \in DOMAIN body.entries : body.entries[i].key \in BadKeys THEN Refuse(walked)
  ELSE Enter(walked, body, depth)

\* _sanitize_body, of a mapping.
RECURSIVE Descend(_, _, _)
Descend(walk, body, depth) ==
  LET entered == Enter(walk, body, depth)
      step(w, entry) ==
        IF w.refused THEN w
        ELSE IF entry.key \in BadKeys THEN Refuse(w)
        ELSE IF entry.body.kind = "mapping" THEN Descend(w, entry.body, depth + 1)
        ELSE Value(w, entry.body) IN
  IF entered.refused THEN entered ELSE FoldLeft(step, entered, body.entries)

\* External: json.dumps, in which every key and value counts for one.
RECURSIVE Bytes(_)
Bytes(body) ==
  CASE body.kind = "leaf" -> 1
    [] body.kind = "array" -> Len(body.sorts)
    [] OTHER -> FoldLeft(LAMBDA n, entry : n + 1 + Bytes(entry.body), 0, body.entries)

sanitize_body(body) ==
  CASE body.kind = "leaf" ->
         IF body.sort \in Scalars \cup {"loose"} THEN Look(Start, 1) ELSE Refuse(Look(Start, 1))
    [] body.kind = "array" -> Refuse(Look(Start, 1))
    [] OTHER -> LET walk == Descend(Start, body, 0) IN
                IF Bytes(body) > MaxBytes THEN Refuse(walk) ELSE walk

-----------------------------------------------------------------------------
(* What should pass, said of the whole body at once: the set of its nodes,  *)
(* each with the path of positions that leads to it.                        *)

RECURSIVE Nodes(_, _)
Nodes(path, body) ==
  {<<path, body>>} \cup
    IF body.kind # "mapping" THEN {}
    ELSE UNION {Nodes(Append(path, i), body.entries[i].body) : i \in DOMAIN body.entries}

Fits(body) ==
  LET nodes == Nodes(<<>>, body)
      mappings == {n \in nodes : n[2].kind = "mapping"}
      inner == nodes \ {<<<<>>, body>>} IN
  IF body.kind # "mapping" THEN body \in {Leaf(sort) : sort \in Scalars \cup {"loose"}}
  ELSE /\ \A n \in mappings :
            /\ Len(n[1]) < MaxDepth /\ Len(n[2].entries) <= MaxEntries
            /\ \A i \in DOMAIN n[2].entries : n[2].entries[i].key \notin BadKeys
       /\ Cardinality(inner) <= MaxTotal
       /\ \A n \in inner :
            \/ n[2].kind = "mapping" \/ n[2] \in {Leaf(sort) : sort \in Scalars \cup {"null"}}
            \/ /\ n[2].kind = "array" /\ Len(n[2].sorts) <= MaxItems
               /\ ToSet(n[2].sorts) \subseteq Scalars
       /\ Bytes(body) <= MaxBytes

\* Records refuses the bodies that the walk refuses.
ASSUME BodiesAssumption ==
  \A c \in Calls : Refused(c.body) <=> sanitize_body(c.body).refused

-----------------------------------------------------------------------------
(* Properties.                                                              *)

\* Exactly the bodies that are within all bounds and have no denied key at any
\* level pass, wherever in the body they reach a bound.
BodyPassesIffFits ==
  call # None => (~sanitize_body(call.body).refused <=> Fits(call.body))

\* However many values a body has, and whether it passes or not, no more of them
\* are looked at than the bounds allow a body to have.  How long a look at one
\* string takes is not counted.
WorkIsBounded ==
  call # None => sanitize_body(call.body).seen <= 1 + MaxTotal * (1 + MaxItems)

=============================================================================
