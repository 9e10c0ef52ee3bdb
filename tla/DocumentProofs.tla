--------------------------- MODULE DocumentProofs ---------------------------
(***************************************************************************)
(* Proofs about what becomes of a document before it is run.  Of the       *)
(* parser, for every text: the blocks are the spans a reader would mark,   *)
(* and a command loses only its header.  Of the resolver: the environment  *)
(* filter keeps the steps that are for the target and nothing else.  Of    *)
(* the preparation, for every document, every option and all input: what   *)
(* is ready is runnable but for what the values bring, danger is answered  *)
(* for, bindings reach.                                                    *)
(***************************************************************************)
EXTENDS RunbookParser, RunPreparation, FiniteSetTheorems, SequenceTheorems,
        WellFoundedInduction, TLAPS

(***************************************************************************)
(* Numbers.                                                                *)
(***************************************************************************)
LEMMA LeastElement ==
    ASSUME NEW T \in SUBSET Nat, T # {}
    PROVE  \E n \in T : \A m \in T : n <= m
<1>1. PICK n \in T : \A m \in T : <<m, n>> \notin OpToRel(<, Nat)
  BY WFMin, NatLessThanWellFounded, Zenon
<1>2. \A m \in T : ~(m < n)
  BY <1>1, Zenon DEF OpToRel
<1>. QED  BY <1>2

LEMMA MinIsLeast ==
    ASSUME NEW T \in SUBSET Nat, T # {}
    PROVE  Min(T) \in T /\ \A m \in T : Min(T) <= m
<1>1. \E n \in T : \A m \in T : n <= m
  BY LeastElement
<1>. QED  BY <1>1, Zenon DEF Min

LEMMA MaxIsGreatest ==
    ASSUME NEW n \in Nat, NEW T \in SUBSET (0..n), T # {}
    PROVE  Max(T) \in T /\ \A m \in T : Max(T) >= m
<1>. DEFINE B == {b \in Nat : \A m \in T : m <= b}
<1>1. n \in B /\ B \in SUBSET Nat
  OBVIOUS
<1>2. PICK b \in B : \A c \in B : b <= c
  BY <1>1, LeastElement
<1>3. b \in T
  <2>1. SUFFICES ASSUME b \notin T PROVE FALSE
    OBVIOUS
  <2>2. PICK m \in T : TRUE
    OBVIOUS
  <2>3. m \in Nat /\ b \in Nat /\ m <= b /\ m # b
    BY <2>1, <1>2
  <2>4. b - 1 \in Nat
    BY <2>3
  <2>5. \A x \in T : x <= b - 1
    BY <1>2, <2>1
  <2>6. b - 1 \in B
    BY <2>4, <2>5
  <2>. QED  BY <1>2, <2>3, <2>6
<1>4. \E x \in T : \A m \in T : x >= m
  BY <1>2, <1>3
<1>. QED  BY <1>4, Zenon DEF Max

-----------------------------------------------------------------------------
(***************************************************************************)
(* One node: what of the lines of its block it keeps.                      *)
(***************************************************************************)
Modes == {"lead", "front", "body", "block", "accepted", "refused"}
Nodes == [type : BlockTypes, name : {line.name : line \in Lines}, at : Nat, end : Nat,
          command : SUBSET Nat, fields : UNION {[HeaderKeys(t) -> Nat] : t \in BlockTypes}]

Bars(i, j) == {k \in i + 2 .. j - 1 : text[k].kind = "dashes"}

LosesOnlyTheHeader(n) ==
    /\ \A l \in Inside(n) \ n.command :
          \/ text[l].kind = "blank"
          \/ \E c \in Bars(n.at, n.end) : l <= c /\ \A d \in Bars(n.at, n.end) : c <= d
    /\ \A key \in DOMAIN n.fields : n.fields[key] \notin n.command
    /\ n.command # {} =>
          \A c \in Bars(n.at, n.end) : \E d \in Bars(n.at, n.end) : d <= c /\ d < Min(n.command)

LEMMA SeparatorIsFirstBar ==
    ASSUME NEW i \in Nat, NEW j \in Nat
    PROVE  LET sep == Separator(i, j) IN
           /\ sep \in Nat /\ sep >= i
           /\ Bars(i, j) = {} => sep = i
           /\ Bars(i, j) # {} => sep \in Bars(i, j) /\ \A c \in Bars(i, j) : sep <= c
<1>1. Bars(i, j) \in SUBSET Nat /\ \A c \in Bars(i, j) : c >= i
  BY DEF Bars
<1>2. Separator(i, j) = IF Bars(i, j) = {} THEN i ELSE Min(Bars(i, j))
  BY DEF Separator, Bars
<1>3. Bars(i, j) # {} =>
        Min(Bars(i, j)) \in Bars(i, j) /\ \A c \in Bars(i, j) : Min(Bars(i, j)) <= c
  BY <1>1, MinIsLeast
<1>. QED  BY <1>1, <1>2, <1>3

(* The line a field is taken from is the opening or a line of the header.  *)
LEMMA FieldsAreOfTheHeader ==
    ASSUME NEW i \in Nat, NEW j \in Nat, NEW key
    PROVE  LET header == i + 1 .. j - 1 IN
           /\ StepField(header, key) \in header \cup {0}
           /\ WaitField(i, header, key) \in header \cup {0, i}
<1>. DEFINE header == i + 1 .. j - 1
            given  == {k \in header : text[k].kind = "pair" /\ text[k].key = key}
<1>1. given \in SUBSET (0 .. i + j) /\ given \in SUBSET Nat /\ given \subseteq header
  OBVIOUS
<1>2. given # {} => Min(given) \in header /\ Max(given) \in header
  <2>. HIDE DEF header, given
  <2>1. i + j \in Nat
    OBVIOUS
  <2>. QED  BY <1>1, <2>1, MinIsLeast, MaxIsGreatest
<1>3. StepField(header, key) = IF given = {} THEN 0 ELSE Max(given)
  BY DEF StepField
<1>4. StepField(header, key) \in header \cup {0}
  BY <1>2, <1>3
<1>5. \/ WaitField(i, header, key) = i
      \/ given # {} /\ WaitField(i, header, key) = Min(given)
      \/ WaitField(i, header, key) = StepField(header, key)
  <2>. HIDE DEF header
  <2>1. CASE key = "duration" /\ text[i].inline
    BY <2>1 DEF WaitField
  <2>2. CASE ~(key = "duration" /\ text[i].inline) /\ key = "duration" /\ given # {}
    BY <2>2 DEF WaitField
  <2>3. CASE ~(key = "duration" /\ text[i].inline) /\ ~(key = "duration" /\ given # {})
    BY <2>3 DEF WaitField
  <2>. QED  BY <2>1, <2>2, <2>3
<1>. HIDE DEF header, given
<1>6. WaitField(i, header, key) \in header \cup {0, i}
  BY <1>2, <1>4, <1>5
<1>. QED  BY <1>4, <1>6 DEF header

LEMMA NodeFacts ==
    ASSUME NEW i \in Nat, NEW j \in Nat, i < j, text[i] \in Lines, text[i].type \in BlockTypes
    PROVE  LET n == BuildNode(i, j) IN
           /\ n \in Nodes /\ n.at = i /\ n.end = j
           /\ n.command = Trimmed(Separator(i, j) + 1 .. j - 1)
           /\ \A key \in DOMAIN n.fields : n.fields[key] \in 0 .. Separator(i, j)
<1>. DEFINE sep    == Separator(i, j)
            header == i + 1 .. sep - 1
            type   == text[i].type
            f      == [key \in HeaderKeys(type) |->
                         IF type = "wait" THEN WaitField(i, header, key)
                                          ELSE StepField(header, key)]
            n      == BuildNode(i, j)
<1>1. n = [type |-> type, name |-> text[i].name, at |-> i, end |-> j,
           command |-> Trimmed(sep + 1 .. j - 1), fields |-> f]
  BY DEF BuildNode
<1>2. sep \in Nat /\ sep >= i
  BY SeparatorIsFirstBar
<1>3. \A key : StepField(header, key) \in header \cup {0} /\ WaitField(i, header, key) \in header \cup {0, i}
  <2>. HIDE DEF sep
  <2>. QED  BY <1>2, FieldsAreOfTheHeader
<1>4. header \cup {0, i} \subseteq 0 .. sep
  <2>. HIDE DEF sep
  <2>. QED  BY <1>2
<1>5. \A key \in HeaderKeys(type) : f[key] \in 0 .. sep
  <2>. HIDE DEF header, sep
  <2>. QED  BY <1>3, <1>4
<1>6. Trimmed(sep + 1 .. j - 1) \in SUBSET Nat
  <2>. HIDE DEF sep
  <2>. QED  BY <1>2 DEF Trimmed
<1>7. f \in UNION {[HeaderKeys(t) -> Nat] : t \in BlockTypes}
  <2>1. f \in [HeaderKeys(type) -> Nat]
    <3>. HIDE DEF header, sep
    <3>. QED  BY <1>2, <1>5
  <2>. HIDE DEF f
  <2>. QED  BY <2>1
<1>. HIDE DEF f, sep, n
<1>8. n \in Nodes
  BY <1>1, <1>6, <1>7 DEF Nodes
<1>9. n.at = i /\ n.end = j /\ n.command = Trimmed(sep + 1 .. j - 1) /\ n.fields = f
  BY <1>1
<1>10. DOMAIN f = HeaderKeys(type)
  BY DEF f
<1>. QED  BY <1>5, <1>8, <1>9, <1>10 DEF n, sep

(* A line of a block that is not in the command ended up before the        *)
(* separator, or was blank at an edge.                                     *)
LEMMA NodeLosesOnlyTheHeader ==
    ASSUME NEW i \in Nat, NEW j \in Nat, i < j, text[i] \in Lines, text[i].type \in BlockTypes
    PROVE  LosesOnlyTheHeader(BuildNode(i, j))
<1>. DEFINE sep  == Separator(i, j)
            n    == BuildNode(i, j)
            body == sep + 1 .. j - 1
<1>1. /\ n.at = i /\ n.end = j /\ n.command = Trimmed(body)
      /\ \A key \in DOMAIN n.fields : n.fields[key] \in 0 .. sep
  BY NodeFacts
<1>2. /\ sep \in Nat /\ sep >= i
      /\ Bars(i, j) = {} => sep = i
      /\ Bars(i, j) # {} => sep \in Bars(i, j) /\ \A c \in Bars(i, j) : sep <= c
  BY SeparatorIsFirstBar
<1>. HIDE DEF n, sep
<1>3. ASSUME NEW l \in Inside(n) \ n.command
      PROVE  \/ text[l].kind = "blank"
             \/ \E c \in Bars(n.at, n.end) : l <= c /\ \A d \in Bars(n.at, n.end) : c <= d
  <2>1. l \in i + 1 .. j - 1 /\ l \notin Trimmed(body)
    BY <1>1 DEF Inside
  <2>2. CASE l <= sep
    <3>1. Bars(i, j) # {}
      BY <1>2, <2>1, <2>2
    <3>. QED  BY <1>1, <1>2, <2>2, <3>1
  <2>3. CASE ~(l <= sep)
    <3>1. l \in body
      BY <1>2, <2>1, <2>3
    <3>2. text[l].kind # "blank" => l \in Trimmed(body)
      BY <1>2, <3>1 DEF Trimmed
    <3>. QED  BY <2>1, <3>2
  <2>. QED  BY <2>2, <2>3
<1>4. n.command \in SUBSET Nat /\ \A l \in n.command : l > sep
  BY <1>1, <1>2 DEF Trimmed
<1>5. \A key \in DOMAIN n.fields : n.fields[key] \notin n.command
  BY <1>1, <1>2, <1>4
<1>6. ASSUME n.command # {}, NEW c \in Bars(n.at, n.end)
      PROVE  \E d \in Bars(n.at, n.end) : d <= c /\ d < Min(n.command)
  <2>1. Min(n.command) > sep
    BY <1>4, <1>6, MinIsLeast
  <2>. QED  BY <1>1, <1>2, <2>1
<1>. QED  BY <1>3, <1>5, <1>6 DEF LosesOnlyTheHeader, n

-----------------------------------------------------------------------------
(***************************************************************************)
(* The pass over the lines.                                                *)
(***************************************************************************)
ParserTypes ==
    /\ text \in Seq(Lines)
    /\ mode \in Modes
    /\ opened \in Nat /\ from \in Nat \ {0}
    /\ nodes \in Seq(Nodes)

(* A node spans an opening of the body and the first bare fence after it.  *)
Spans(n) ==
    /\ from <= n.at /\ n.at < n.end /\ n.end <= Len(text)
    /\ text[n.at].kind = "open" /\ text[n.end].kind = "fence"
    /\ \A l \in Inside(n) : text[l].kind # "fence"

InDocumentOrder == \A k, l \in DOMAIN nodes : k < l => nodes[k].end < nodes[l].at

(* Until the body is reached nothing that was read opens a block.          *)
BeforeTheBody ==
    /\ mode \in {"lead", "front"} => nodes = <<>> /\ from = 1
    /\ mode = "lead" => \A i \in DOMAIN text : text[i].kind # "open"
    /\ mode = "front" => opened \in DOMAIN text /\ \A i \in 1 .. opened : text[i].kind # "open"

(* The block being read: no fence yet, and no node reaches into it.        *)
InTheBlock ==
    mode = "block" =>
        /\ opened \in from .. Len(text) /\ text[opened].kind = "open"
        /\ \A l \in opened + 1 .. Len(text) : text[l].kind # "fence"
        /\ \A k \in DOMAIN nodes : nodes[k].end < opened

Covered(i) == \/ \E k \in DOMAIN nodes : i \in nodes[k].at .. nodes[k].end
              \/ mode = "block" /\ i >= opened

(* Every opening of the body is in a node or in the block being read.      *)
OpeningsCovered ==
    mode \in {"lead", "body", "block", "accepted"} =>
        /\ from <= Len(text) + 1
        /\ \A i \in from .. Len(text) : text[i].kind = "open" => Covered(i)

ParserInv ==
    /\ ParserTypes
    /\ \A n \in ToSet(nodes) : Spans(n) /\ LosesOnlyTheHeader(n)
    /\ InDocumentOrder
    /\ BeforeTheBody
    /\ InTheBlock
    /\ OpeningsCovered

(* Another line changes nothing about the lines before it.                 *)
LEMMA LineAdded ==
    ASSUME ParserTypes, NEW line \in Lines, text' = Append(text, line)
    PROVE  /\ text' \in Seq(Lines) /\ Len(text') = Len(text) + 1 /\ Len(text) \in Nat
           /\ \A l \in 1 .. Len(text) : text'[l] = text[l]
           /\ text'[Len(text) + 1] = line
           /\ DOMAIN text = 1 .. Len(text) /\ DOMAIN text' = 1 .. Len(text) + 1
  BY DEF ParserTypes

LEMMA NodeStays ==
    ASSUME ParserTypes, NEW line \in Lines, text' = Append(text, line),
           NEW n \in Nodes, n.at \in 1 .. Len(text), n.end \in 1 .. Len(text) + 1
    PROVE  /\ LosesOnlyTheHeader(n) => LosesOnlyTheHeader(n)'
           /\ Spans(n) /\ from' = from => Spans(n)'
<1>1. /\ Len(text') = Len(text) + 1 /\ Len(text) \in Nat
      /\ \A l \in 1 .. Len(text) : text'[l] = text[l]
  BY LineAdded
<1>2. n.at \in Nat /\ n.end \in Nat
  BY DEF Nodes
<1>3. Inside(n) \subseteq 1 .. Len(text)
  BY <1>1, <1>2 DEF Inside
<1>4. Bars(n.at, n.end)' = Bars(n.at, n.end)
  <2>1. n.at + 2 .. n.end - 1 \subseteq 1 .. Len(text)
    BY <1>1, <1>2
  <2>. QED  BY <1>1, <2>1 DEF Bars
<1>5. LosesOnlyTheHeader(n) => LosesOnlyTheHeader(n)'
  <2>1. SUFFICES ASSUME LosesOnlyTheHeader(n)  PROVE LosesOnlyTheHeader(n)'
    OBVIOUS
  <2>2. \A l \in Inside(n) : text'[l] = text[l]
    BY <1>1, <1>3
  <2>3. Inside(n)' = Inside(n)
    BY DEF Inside
  <2>. DEFINE bars == Bars(n.at, n.end)
  <2>4. bars' = bars
    BY <1>4
  <2>. HIDE DEF bars
  <2>5. ASSUME NEW l \in Inside(n) \ n.command
        PROVE  text'[l].kind = "blank" \/ \E c \in bars' : l <= c /\ \A d \in bars' : c <= d
    <3>1. text[l].kind = "blank" \/ \E c \in bars : l <= c /\ \A d \in bars : c <= d
      BY <2>1, Zenon DEF LosesOnlyTheHeader, bars
    <3>. QED  BY <2>2, <2>4, <3>1, Zenon
  <2>6. n.command # {} => \A c \in bars' : \E d \in bars' : d <= c /\ d < Min(n.command)
    BY <2>1, <2>4 DEF LosesOnlyTheHeader, bars
  <2>7. \A key \in DOMAIN n.fields : n.fields[key] \notin n.command
    BY <2>1 DEF LosesOnlyTheHeader
  <2>. QED  BY <2>3, <2>5, <2>6, <2>7 DEF LosesOnlyTheHeader, bars
<1>6. Spans(n) /\ from' = from => Spans(n)'
  <2>1. SUFFICES ASSUME Spans(n), from' = from  PROVE Spans(n)'
    OBVIOUS
  <2>2. \A l \in Inside(n) : text'[l] = text[l]
    BY <1>1, <1>3
  <2>3. Inside(n)' = Inside(n)
    BY DEF Inside
  <2>4. n.end \in 1 .. Len(text) /\ n.end <= Len(text')
    BY <1>1, <1>2, <2>1 DEF Spans
  <2>. QED  BY <1>1, <2>1, <2>2, <2>3, <2>4 DEF Spans
<1>. QED  BY <1>5, <1>6

LEMMA ParserStarts == ParserInit => ParserInv
<1>1. SUFFICES ASSUME ParserInit PROVE ParserInv
  OBVIOUS
<1>2. text = <<>> /\ nodes = <<>> /\ mode = "lead" /\ opened = 0 /\ from = 1
  BY <1>1, Zenon DEF ParserInit
<1>3. DOMAIN nodes = {} /\ DOMAIN text = {} /\ Len(text) = 0
  BY <1>2, EmptySeq
<1>4. ParserTypes
  BY <1>2 DEF ParserTypes, Modes
<1>5. ToSet(nodes) = {}
  BY <1>3 DEF ToSet
<1>. QED  BY <1>2, <1>3, <1>4, <1>5 DEF ParserInv, InDocumentOrder, BeforeTheBody, InTheBlock,
              OpeningsCovered

(* While no node is added and none of the body is given up, the nodes keep *)
(* what they have.                                                         *)
LEMMA NodesStay ==
    ASSUME ParserInv, NEW line \in Lines, text' = Append(text, line),
           from' = from \/ nodes = <<>>
    PROVE  \A n \in ToSet(nodes) : Spans(n)' /\ LosesOnlyTheHeader(n)'
<1>1. SUFFICES ASSUME NEW k \in DOMAIN nodes, NEW n, n = nodes[k]
               PROVE  Spans(n)' /\ LosesOnlyTheHeader(n)'
  BY DEF ToSet
<1>2. n \in Nodes /\ from' = from /\ n \in ToSet(nodes)
  BY <1>1 DEF ParserInv, ParserTypes, ToSet
<1>3. Spans(n) /\ LosesOnlyTheHeader(n)
  BY <1>2 DEF ParserInv
<1>4. n.at \in 1 .. Len(text) /\ n.end \in 1 .. Len(text) + 1
  BY <1>2, <1>3 DEF ParserInv, ParserTypes, Spans, Nodes
<1>. QED  BY <1>2, <1>3, <1>4, NodeStays DEF ParserInv

(* What a line that adds no node leaves to show.                           *)
LEMMA LineRead ==
    ASSUME ParserInv, NEW line \in Lines, text' = Append(text, line),
           nodes' = nodes, from' = from \/ nodes = <<>>
    PROVE  /\ \A n \in ToSet(nodes') : Spans(n)' /\ LosesOnlyTheHeader(n)'
           /\ InDocumentOrder'
           /\ mode' \in Modes /\ opened' \in Nat /\ from' \in Nat \ {0} => ParserTypes'
<1>1. \A n \in ToSet(nodes) : Spans(n)' /\ LosesOnlyTheHeader(n)'
  BY NodesStay
<1>2. InDocumentOrder'
  BY DEF ParserInv, InDocumentOrder
<1>3. text' \in Seq(Lines)
  BY LineAdded DEF ParserInv
<1>. QED  BY <1>1, <1>2, <1>3 DEF ParserInv, ParserTypes

LEMMA LeadIsKept ==
    ASSUME ParserInv, NEW line \in Lines, text' = Append(text, line),
           SkipLead(line) \/ OpenFrontmatter(line)
    PROVE  ParserInv'
<1>1. /\ nodes' = nodes /\ from' = from /\ mode = "lead" /\ line.kind # "open"
      /\ \/ mode' = "lead" /\ opened' = opened
         \/ mode' = "front" /\ opened' = Len(text) + 1
  BY DEF SkipLead, OpenFrontmatter, Delimits, Here
<1>2. /\ Len(text') = Len(text) + 1 /\ Len(text) \in Nat
      /\ \A l \in 1 .. Len(text) : text'[l] = text[l]
      /\ text'[Len(text) + 1] = line
      /\ DOMAIN text = 1 .. Len(text) /\ DOMAIN text' = 1 .. Len(text) + 1
  BY LineAdded DEF ParserInv
<1>3. ParserTypes'
  BY <1>1, <1>2, LineRead DEF ParserInv, ParserTypes, Modes
<1>4. \A i \in 1 .. Len(text) + 1 : text'[i].kind # "open"
  BY <1>1, <1>2 DEF ParserInv, BeforeTheBody
<1>5. nodes = <<>> /\ from = 1
  BY <1>1 DEF ParserInv, BeforeTheBody
<1>6. BeforeTheBody'
  BY <1>1, <1>2, <1>4, <1>5 DEF BeforeTheBody
<1>7. InTheBlock'
  BY <1>1 DEF InTheBlock
<1>8. OpeningsCovered'
  BY <1>1, <1>2, <1>4, <1>5 DEF OpeningsCovered
<1>. QED  BY <1>1, <1>3, <1>6, <1>7, <1>8, LineRead DEF ParserInv

LEMMA FrontmatterIsKept ==
    ASSUME ParserInv, NEW line \in Lines, text' = Append(text, line), ReadFrontmatter(line)
    PROVE  ParserInv'
<1>1. /\ nodes' = nodes /\ mode = "front"
      /\ \/ mode' = "front" /\ opened' = opened /\ from' = from
         \/ mode' = "refused" /\ opened' = opened /\ from' = from
         \/ mode' = "body" /\ opened' = 0 /\ from' = Len(text) + 2
  BY DEF ReadFrontmatter, Refuse, Here
<1>2. /\ Len(text') = Len(text) + 1 /\ Len(text) \in Nat
      /\ \A l \in 1 .. Len(text) : text'[l] = text[l]
      /\ DOMAIN text = 1 .. Len(text) /\ DOMAIN text' = 1 .. Len(text) + 1
  BY LineAdded DEF ParserInv
<1>3. nodes = <<>> /\ from = 1 /\ opened \in 1 .. Len(text)
      /\ \A i \in 1 .. opened : text[i].kind # "open"
  BY <1>1, <1>2 DEF ParserInv, BeforeTheBody
<1>4. ParserTypes'
  BY <1>1, <1>2, <1>3, LineRead DEF ParserInv, ParserTypes, Modes
<1>5. BeforeTheBody'
  BY <1>1, <1>2, <1>3 DEF BeforeTheBody
<1>6. InTheBlock'
  BY <1>1 DEF InTheBlock
<1>7. OpeningsCovered'
  BY <1>1, <1>2 DEF OpeningsCovered
<1>. QED  BY <1>1, <1>3, <1>4, <1>5, <1>6, <1>7, LineRead DEF ParserInv

LEMMA ProseIsKept ==
    ASSUME ParserInv, NEW line \in Lines, text' = Append(text, line), SkipProse(line)
    PROVE  ParserInv'
<1>1. /\ nodes' = nodes /\ opened' = opened /\ from' = from /\ mode' = "body"
      /\ mode \in {"lead", "body"} /\ line.kind # "open"
  BY DEF SkipProse
<1>2. /\ Len(text') = Len(text) + 1 /\ Len(text) \in Nat
      /\ \A l \in 1 .. Len(text) : text'[l] = text[l]
      /\ text'[Len(text) + 1] = line
  BY LineAdded DEF ParserInv
<1>3. ParserTypes'
  BY <1>1, <1>2, LineRead DEF ParserInv, ParserTypes, Modes
<1>4. BeforeTheBody' /\ InTheBlock'
  BY <1>1 DEF BeforeTheBody, InTheBlock
<1>5. from \in Nat \ {0} /\ from <= Len(text) + 1
  BY <1>1 DEF ParserInv, ParserTypes, OpeningsCovered
<1>6. ASSUME NEW i \in from .. Len(text) + 1, text'[i].kind = "open"
      PROVE  \E k \in DOMAIN nodes : i \in nodes[k].at .. nodes[k].end
  <2>1. i \in from .. Len(text) /\ i \in 1 .. Len(text)
    BY <1>1, <1>2, <1>5, <1>6
  <2>2. text[i].kind = "open"
    BY <1>2, <1>6, <2>1
  <2>. QED  BY <1>1, <2>1, <2>2 DEF ParserInv, OpeningsCovered, Covered
<1>7. OpeningsCovered'
  BY <1>1, <1>2, <1>5, <1>6 DEF OpeningsCovered, Covered
<1>. QED  BY <1>1, <1>3, <1>4, <1>7, LineRead DEF ParserInv
LEMMA OpeningIsKept ==
    ASSUME ParserInv, NEW line \in Lines, text' = Append(text, line), OpenBlock(line)
    PROVE  ParserInv'
<1>1. /\ nodes' = nodes /\ from' = from
      /\ mode \in {"lead", "body"} /\ line.kind = "open"
      /\ \/ mode' = "refused" /\ opened' = opened
         \/ mode' = "block" /\ opened' = Len(text) + 1
  BY DEF OpenBlock, Refuse, Here
<1>2. /\ Len(text') = Len(text) + 1 /\ Len(text) \in Nat
      /\ \A l \in 1 .. Len(text) : text'[l] = text[l]
      /\ text'[Len(text) + 1] = line
  BY LineAdded DEF ParserInv
<1>3. ParserTypes'
  BY <1>1, <1>2, LineRead DEF ParserInv, ParserTypes, Modes
<1>4. BeforeTheBody'
  BY <1>1 DEF BeforeTheBody
<1>5. from \in Nat \ {0} /\ from <= Len(text) + 1
  BY <1>1 DEF ParserInv, ParserTypes, OpeningsCovered
<1>6. ASSUME NEW k \in DOMAIN nodes  PROVE nodes[k].end \in Nat /\ nodes[k].end <= Len(text)
  <2>1. nodes[k] \in Nodes /\ nodes[k] \in ToSet(nodes)
    BY DEF ParserInv, ParserTypes, ToSet
  <2>. QED  BY <2>1 DEF ParserInv, Spans, Nodes
<1>7. InTheBlock'
  BY <1>1, <1>2, <1>5, <1>6 DEF InTheBlock
<1>8. ASSUME NEW i \in from .. Len(text) + 1, text'[i].kind = "open"
      PROVE  i = Len(text) + 1 \/ \E k \in DOMAIN nodes : i \in nodes[k].at .. nodes[k].end
  <2>1. SUFFICES ASSUME i # Len(text) + 1
                 PROVE  \E k \in DOMAIN nodes : i \in nodes[k].at .. nodes[k].end
    OBVIOUS
  <2>2. i \in from .. Len(text) /\ i \in 1 .. Len(text)
    BY <1>2, <1>5, <2>1
  <2>3. text[i].kind = "open"
    BY <1>2, <1>8, <2>2
  <2>. QED  BY <1>1, <2>2, <2>3 DEF ParserInv, OpeningsCovered, Covered
<1>9. OpeningsCovered'
  BY <1>1, <1>2, <1>5, <1>8 DEF OpeningsCovered, Covered
<1>. QED  BY <1>1, <1>3, <1>4, <1>7, <1>9, LineRead DEF ParserInv

LEMMA BlockIsKept ==
    ASSUME ParserInv, NEW line \in Lines, text' = Append(text, line), ReadBlock(line)
    PROVE  ParserInv'
<1>1. /\ nodes' = nodes /\ from' = from /\ opened' = opened
      /\ mode = "block" /\ mode' = "block" /\ line.kind # "fence"
  BY DEF ReadBlock, Closes
<1>2. /\ Len(text') = Len(text) + 1 /\ Len(text) \in Nat
      /\ \A l \in 1 .. Len(text) : text'[l] = text[l]
      /\ text'[Len(text) + 1] = line
  BY LineAdded DEF ParserInv
<1>3. ParserTypes'
  BY <1>1, <1>2, LineRead DEF ParserInv, ParserTypes, Modes
<1>4. BeforeTheBody'
  BY <1>1 DEF BeforeTheBody
<1>5. /\ from \in Nat \ {0} /\ from <= Len(text) + 1
      /\ opened \in from .. Len(text) /\ text[opened].kind = "open"
      /\ \A l \in opened + 1 .. Len(text) : text[l].kind # "fence"
  BY <1>1 DEF ParserInv, ParserTypes, OpeningsCovered, InTheBlock
<1>6. /\ opened \in from .. Len(text) + 1 /\ text'[opened].kind = "open"
      /\ \A l \in opened + 1 .. Len(text) + 1 : text'[l].kind # "fence"
  <2>1. opened \in 1 .. Len(text)
    BY <1>2, <1>5
  <2>2. ASSUME NEW l \in opened + 1 .. Len(text) + 1  PROVE text'[l].kind # "fence"
    <3>1. l = Len(text) + 1 \/ (l \in opened + 1 .. Len(text) /\ l \in 1 .. Len(text))
      BY <1>2, <2>1
    <3>. QED  BY <1>1, <1>2, <1>5, <3>1
  <2>. QED  BY <1>2, <1>5, <2>1, <2>2
<1>7. InTheBlock'
  BY <1>1, <1>2, <1>6 DEF ParserInv, InTheBlock
<1>8. ASSUME NEW i \in from .. Len(text) + 1, text'[i].kind = "open"
      PROVE  i >= opened \/ \E k \in DOMAIN nodes : i \in nodes[k].at .. nodes[k].end
  <2>1. SUFFICES ASSUME ~(i >= opened)
                 PROVE  \E k \in DOMAIN nodes : i \in nodes[k].at .. nodes[k].end
    OBVIOUS
  <2>2. i \in from .. Len(text) /\ i \in 1 .. Len(text)
    BY <1>2, <1>5, <2>1
  <2>3. text[i].kind = "open"
    BY <1>2, <1>8, <2>2
  <2>. QED  BY <1>1, <2>1, <2>2, <2>3 DEF ParserInv, OpeningsCovered, Covered
<1>9. OpeningsCovered'
  BY <1>1, <1>2, <1>5, <1>8 DEF OpeningsCovered, Covered
<1>. QED  BY <1>1, <1>3, <1>4, <1>7, <1>9, LineRead DEF ParserInv

LEMMA NodeIsAdded ==
    ASSUME ParserInv, NEW line \in Lines, text' = Append(text, line), line.kind = "fence",
           mode = "block", mode' = "body", opened' = 0, from' = from,
           NEW n \in Nodes, n.at = opened, n.end = Len(text) + 1, LosesOnlyTheHeader(n),
           nodes' = Append(nodes, n)
    PROVE  ParserInv'
<1>. DEFINE j == Len(text) + 1
            m == Len(nodes)
<1>1. /\ Len(text') = j /\ Len(text) \in Nat
      /\ \A l \in 1 .. Len(text) : text'[l] = text[l]
      /\ text'[j] = line /\ text' \in Seq(Lines)
  BY LineAdded DEF ParserInv
<1>2. /\ from \in Nat \ {0} /\ from <= j
      /\ opened \in from .. Len(text) /\ text[opened].kind = "open"
      /\ \A l \in opened + 1 .. Len(text) : text[l].kind # "fence"
      /\ \A k \in DOMAIN nodes : nodes[k].end < opened
  BY DEF ParserInv, ParserTypes, OpeningsCovered, InTheBlock
<1>3. opened \in Nat /\ j \in Nat /\ opened < j /\ opened \in 1 .. Len(text)
  BY <1>1, <1>2
<1>4. m \in Nat /\ DOMAIN nodes = 1 .. m /\ nodes' \in Seq(Nodes) /\ DOMAIN nodes' = 1 .. m + 1
      /\ nodes'[m + 1] = n /\ \A k \in 1 .. m : nodes'[k] = nodes[k]
  BY DEF ParserInv, ParserTypes
<1>5. LosesOnlyTheHeader(n)'
  <2>1. n.at \in 1 .. Len(text) /\ n.end \in 1 .. Len(text) + 1
    BY <1>1, <1>3
  <2>. QED  BY <2>1, NodeStays DEF ParserInv
<1>6. Spans(n)'
  <2>1. ASSUME NEW l \in Inside(n)  PROVE text'[l].kind # "fence"
    <3>1. l \in opened + 1 .. Len(text) /\ l \in 1 .. Len(text)
      BY <1>1, <1>3 DEF Inside
    <3>. QED  BY <1>1, <1>2, <3>1
  <2>2. Inside(n)' = Inside(n)
    BY DEF Inside
  <2>3. text'[n.at].kind = "open" /\ text'[n.end].kind = "fence"
    BY <1>1, <1>2, <1>3
  <2>4. from' <= n.at /\ n.at < n.end /\ n.end <= Len(text')
    BY <1>1, <1>2, <1>3
  <2>. QED  BY <2>1, <2>2, <2>3, <2>4 DEF Spans
<1>7. ASSUME NEW x \in ToSet(nodes')  PROVE Spans(x)' /\ LosesOnlyTheHeader(x)'
  <2>1. x = n \/ x \in ToSet(nodes)
    BY <1>4 DEF ToSet
  <2>. QED  BY <1>5, <1>6, <2>1, NodesStay
<1>8. InDocumentOrder'
  <2>1. SUFFICES ASSUME NEW k \in 1 .. m + 1, NEW l \in 1 .. m + 1, k < l
                 PROVE  nodes'[k].end < nodes'[l].at
    BY <1>4 DEF InDocumentOrder
  <2>2. k \in 1 .. m /\ nodes'[k] = nodes[k]
    BY <1>4, <2>1
  <2>3. CASE l = m + 1
    BY <1>2, <1>4, <2>2, <2>3
  <2>4. CASE l \in 1 .. m
    BY <1>4, <2>1, <2>2, <2>4 DEF ParserInv, InDocumentOrder
  <2>. QED  BY <1>4, <2>3, <2>4
<1>9. ParserTypes'
  BY <1>1, <1>2, <1>4 DEF ParserTypes, Modes
<1>10. BeforeTheBody' /\ InTheBlock'
  BY DEF BeforeTheBody, InTheBlock
<1>11. ASSUME NEW i \in from .. j, text'[i].kind = "open"
       PROVE  \E k \in 1 .. m + 1 : i \in nodes'[k].at .. nodes'[k].end
  <2>1. CASE i >= opened
    <3>1. i \in nodes'[m + 1].at .. nodes'[m + 1].end
      BY <1>2, <1>3, <1>4, <2>1
    <3>. QED  BY <1>4, <3>1
  <2>2. CASE ~(i >= opened)
    <3>1. i \in from .. Len(text) /\ i \in 1 .. Len(text)
      BY <1>2, <1>3, <2>2
    <3>2. text[i].kind = "open"
      BY <1>1, <1>11, <3>1
    <3>3. \E k \in 1 .. m : i \in nodes[k].at .. nodes[k].end
      BY <1>4, <2>2, <3>1, <3>2 DEF ParserInv, OpeningsCovered, Covered
    <3>. QED  BY <1>4, <3>3
  <2>. QED  BY <2>1, <2>2
<1>12. OpeningsCovered'
  <2>1. from <= Len(text') + 1
    BY <1>1, <1>2, <1>3
  <2>2. \A i \in from .. Len(text') : text'[i].kind = "open" => Covered(i)'
    BY <1>1, <1>4, <1>11 DEF Covered
  <2>. QED  BY <2>1, <2>2 DEF OpeningsCovered
<1>. QED  BY <1>7, <1>8, <1>9, <1>10, <1>12 DEF ParserInv

LEMMA ClosingIsKept ==
    ASSUME ParserInv, NEW line \in Lines, text' = Append(text, line), CloseBlock(line)
    PROVE  ParserInv'
<1>1. /\ mode = "block" /\ line.kind = "fence" /\ opened' = 0 /\ from' = from
      /\ \/ mode' = "refused" /\ nodes' = nodes
         \/ mode' = "body" /\ nodes' = Append(nodes, BuildNode(opened, Len(text) + 1))
  BY DEF CloseBlock, Closes, Refuse, Here
<1>2. CASE mode' = "refused" /\ nodes' = nodes
  <2>1. ParserTypes'
    BY <1>1, <1>2, LineRead DEF ParserInv, ParserTypes, Modes
  <2>2. BeforeTheBody' /\ InTheBlock' /\ OpeningsCovered'
    BY <1>2 DEF BeforeTheBody, InTheBlock, OpeningsCovered
  <2>. QED  BY <1>1, <1>2, <2>1, <2>2, LineRead DEF ParserInv
<1>3. CASE mode' = "body" /\ nodes' = Append(nodes, BuildNode(opened, Len(text) + 1))
  <2>1. opened \in 1 .. Len(text) /\ text[opened].kind = "open"
    BY <1>1 DEF ParserInv, ParserTypes, InTheBlock
  <2>2. /\ opened \in Nat /\ Len(text) + 1 \in Nat /\ opened < Len(text) + 1
        /\ text[opened] \in Lines /\ text[opened].type \in BlockTypes
    BY <2>1, LinesAssumption DEF ParserInv, ParserTypes
  <2>3. PICK n : n = BuildNode(opened, Len(text) + 1)
    OBVIOUS
  <2>4. n \in Nodes /\ n.at = opened /\ n.end = Len(text) + 1 /\ LosesOnlyTheHeader(n)
    BY <2>2, <2>3, NodeFacts, NodeLosesOnlyTheHeader
  <2>. QED  BY <1>1, <1>3, <2>3, <2>4, NodeIsAdded
<1>. QED  BY <1>1, <1>2, <1>3

LEMMA EndIsKept == ASSUME ParserInv, EndOfText PROVE ParserInv'
<1>1. /\ text' = text /\ nodes' = nodes /\ opened' = opened /\ from' = from
      /\ \/ mode' = "refused"
         \/ mode' = "accepted" /\ mode \in {"lead", "body"}
         \/ mode' = "accepted" /\ mode = "front" /\ opened = Len(text)
  BY DEF EndOfText, Refuse
<1>2. ParserTypes' /\ BeforeTheBody' /\ InTheBlock'
  BY <1>1 DEF ParserInv, ParserTypes, Modes, BeforeTheBody, InTheBlock
<1>3. InDocumentOrder' /\ \A n \in ToSet(nodes') : Spans(n)' /\ LosesOnlyTheHeader(n)'
  BY <1>1 DEF ParserInv, InDocumentOrder, Spans, LosesOnlyTheHeader, Inside, Bars
<1>4. OpeningsCovered'
  <2>1. CASE mode \in {"lead", "body"}
    BY <1>1, <2>1 DEF ParserInv, OpeningsCovered, Covered
  <2>2. CASE mode = "front" /\ opened = Len(text)
    BY <1>1, <2>2 DEF ParserInv, ParserTypes, BeforeTheBody, OpeningsCovered
  <2>. QED  BY <1>1, <2>1, <2>2 DEF OpeningsCovered
<1>. QED  BY <1>2, <1>3, <1>4 DEF ParserInv

LEMMA ParserStepIsKept == ParserInv /\ [ParserNext]_parserVars => ParserInv'
<1>1. SUFFICES ASSUME ParserInv, [ParserNext]_parserVars  PROVE ParserInv'
  OBVIOUS
<1>2. CASE EndOfText
  BY <1>1, <1>2, EndIsKept
<1>3. CASE \E line \in Lines : ReadLine(line)
  <2>1. PICK line \in Lines : ReadLine(line)
    BY <1>3
  <2>2. text' = Append(text, line)
    BY <2>1 DEF ReadLine
  <2>3. \/ SkipLead(line) \/ OpenFrontmatter(line) \/ ReadFrontmatter(line)
        \/ SkipProse(line) \/ OpenBlock(line) \/ ReadBlock(line) \/ CloseBlock(line)
    BY <2>1 DEF ReadLine
  <2>. QED  BY <1>1, <2>2, <2>3, LeadIsKept, FrontmatterIsKept, ProseIsKept, OpeningIsKept,
               BlockIsKept, ClosingIsKept
<1>4. CASE UNCHANGED parserVars
  <2>1. text' = text /\ nodes' = nodes /\ opened' = opened /\ from' = from /\ mode' = mode
    BY <1>4 DEF parserVars
  <2>2. ParserTypes' /\ BeforeTheBody' /\ InTheBlock' /\ OpeningsCovered'
    BY <1>1, <2>1 DEF ParserInv, ParserTypes, BeforeTheBody, InTheBlock, OpeningsCovered, Covered
  <2>3. InDocumentOrder' /\ \A n \in ToSet(nodes') : Spans(n)' /\ LosesOnlyTheHeader(n)'
    BY <1>1, <2>1 DEF ParserInv, InDocumentOrder, Spans, LosesOnlyTheHeader, Inside, Bars
  <2>. QED  BY <2>2, <2>3 DEF ParserInv
<1>. QED  BY <1>1, <1>2, <1>3, <1>4 DEF ParserNext

(* The inductive invariant of the parser: whatever the text and however    *)
(* far it has been read, the nodes built so far are whole blocks that lost *)
(* only their headers, and no opening of the body has been passed over     *)
(* (extractBlocks).                                                        *)
THEOREM ParserInvariant == ParserSpec => []ParserInv
<1>. QED  BY ParserStarts, ParserStepIsKept, PTL DEF ParserSpec

(* The blocks of an accepted text are the spans a reader would mark        *)
(* (extractBlocks).                                                        *)
THEOREM BlocksAreExact == ParserSpec => []BlocksAreTheirSpans
<1>1. ParserInv => BlocksAreTheirSpans
  <2>1. SUFFICES ASSUME ParserInv, mode = "accepted"  PROVE BlocksAreTheirSpans
    BY DEF BlocksAreTheirSpans
  <2>2. ASSUME NEW k \in DOMAIN nodes
        PROVE  /\ nodes[k].at >= from
               /\ text[nodes[k].at].kind = "open" /\ text[nodes[k].end].kind = "fence"
               /\ \A l \in Inside(nodes[k]) : text[l].kind # "fence"
               /\ \A l \in DOMAIN nodes : l > k => nodes[l].at > nodes[k].end
    <3>0. \A l \in DOMAIN nodes : l \in Nat /\ nodes[l] \in Nodes /\ nodes[l] \in ToSet(nodes)
      BY <2>1 DEF ParserInv, ParserTypes, ToSet
    <3>1. nodes[k] \in ToSet(nodes) /\ nodes[k].at \in Nat /\ nodes[k].end \in Nat
      BY <3>0 DEF Nodes
    <3>2. Spans(nodes[k])
      BY <2>1, <3>1 DEF ParserInv
    <3>3. ASSUME NEW l \in DOMAIN nodes, l > k  PROVE nodes[l].at > nodes[k].end
      <4>1. k < l /\ nodes[l].at \in Nat
        BY <3>0, <3>3 DEF Nodes
      <4>. QED  BY <2>1, <3>1, <4>1 DEF ParserInv, InDocumentOrder
    <3>. QED  BY <2>1, <3>1, <3>2, <3>3 DEF Spans, ParserInv, ParserTypes
  <2>3. \A i \in from .. Len(text) : text[i].kind = "open" =>
           \E k \in DOMAIN nodes : i \in nodes[k].at .. nodes[k].end
    BY <2>1 DEF ParserInv, OpeningsCovered, Covered
  <2>. QED  BY <2>2, <2>3 DEF BlocksAreTheirSpans
<1>. QED  BY <1>1, ParserInvariant, PTL

(* A command loses only its header, and no field is read from a line that  *)
(* is also run (splitBlockContent).                                        *)
THEOREM CommandsAreWhole == ParserSpec => []CommandsLoseOnlyTheHeader
<1>1. ParserInv => CommandsLoseOnlyTheHeader
  <2>1. SUFFICES ASSUME ParserInv, NEW k \in DOMAIN nodes  PROVE LosesOnlyTheHeader(nodes[k])
    BY DEF CommandsLoseOnlyTheHeader, LosesOnlyTheHeader, Bars
  <2>. QED  BY <2>1 DEF ParserInv, ToSet
<1>. QED  BY <1>1, ParserInvariant, PTL
-----------------------------------------------------------------------------
(***************************************************************************)
(* The blocks of a document, as the four lists the parser fills.           *)
(***************************************************************************)
AnyBlocks == PlainBlocks \cup StepBlocks \cup RollbackBlocks

LEMMA SeqWidens ==
    ASSUME NEW S, NEW T, S \subseteq T, NEW s \in Seq(S)
    PROVE  s \in Seq(T)
<1>1. s \in [1 .. Len(s) -> S] /\ Len(s) \in Nat
  OBVIOUS
<1>. QED  BY <1>1

LEMMA TwoParts ==
    ASSUME NEW S, NEW p \in Seq(S), NEW q \in Seq(S)
    PROVE  /\ p \o q \in Seq(S) /\ DOMAIN (p \o q) = 1 .. Len(p) + Len(q)
           /\ Len(p \o q) = Len(p) + Len(q) /\ Len(p) \in Nat /\ Len(q) \in Nat
           /\ DOMAIN p = 1 .. Len(p) /\ DOMAIN q = 1 .. Len(q)
           /\ \A i \in 1 .. Len(p) : (p \o q)[i] = p[i]
           /\ \A i \in 1 .. Len(q) : (p \o q)[Len(p) + i] = q[i]
  OBVIOUS

(* Every element of one of four lists has its place in the four together,  *)
(* and nothing else has.                                                   *)
Placed(bs, all) ==
    /\ DOMAIN bs \subseteq Nat
    /\ \E n \in Nat : \A i \in DOMAIN bs : n + i \in DOMAIN all /\ all[n + i] = bs[i]

Joins(all, p, q, r, w) ==
    /\ Placed(p, all) /\ Placed(q, all) /\ Placed(r, all) /\ Placed(w, all)
    /\ \A k \in DOMAIN all : \E bs \in {p, q, r, w} : \E i \in DOMAIN bs : all[k] = bs[i]

LEMMA Joined ==
    ASSUME NEW S, NEW p \in Seq(S), NEW q \in Seq(S), NEW r \in Seq(S), NEW w \in Seq(S),
           NEW all, all = p \o q \o r \o w
    PROVE  all \in Seq(S) /\ Joins(all, p, q, r, w)
<1>. DEFINE pq == p \o q
            pqr == pq \o r
<1>0. all = pqr \o w
  OBVIOUS
<1>1. /\ pq \in Seq(S) /\ Len(pq) = Len(p) + Len(q) /\ Len(p) \in Nat /\ Len(q) \in Nat
      /\ DOMAIN p = 1 .. Len(p) /\ DOMAIN q = 1 .. Len(q)
      /\ \A i \in 1 .. Len(p) : pq[i] = p[i]
      /\ \A i \in 1 .. Len(q) : pq[Len(p) + i] = q[i]
  BY TwoParts
<1>. HIDE DEF pq
<1>a. pq \in Seq(S)
  BY <1>1
<1>2. /\ pqr \in Seq(S) /\ Len(pqr) = Len(pq) + Len(r) /\ Len(r) \in Nat
      /\ DOMAIN r = 1 .. Len(r)
      /\ \A i \in 1 .. Len(pq) : pqr[i] = pq[i]
      /\ \A i \in 1 .. Len(r) : pqr[Len(pq) + i] = r[i]
  BY <1>a
<1>. HIDE DEF pqr
<1>b. pqr \in Seq(S)
  BY <1>2
<1>3. /\ all \in Seq(S) /\ DOMAIN all = 1 .. Len(pqr) + Len(w) /\ Len(w) \in Nat
      /\ DOMAIN w = 1 .. Len(w)
      /\ \A i \in 1 .. Len(pqr) : all[i] = pqr[i]
      /\ \A i \in 1 .. Len(w) : all[Len(pqr) + i] = w[i]
  BY <1>0, <1>b
<1>4. \A i \in 1 .. Len(p) : all[i] = p[i]
  <2>1. ASSUME NEW i \in 1 .. Len(p)  PROVE i \in 1 .. Len(pq) /\ i \in 1 .. Len(pqr)
    BY <1>1, <1>2
  <2>. QED  BY <1>1, <1>2, <1>3, <2>1
<1>5. \A i \in 1 .. Len(q) : all[Len(p) + i] = q[i]
  <2>1. ASSUME NEW i \in 1 .. Len(q)
        PROVE  Len(p) + i \in 1 .. Len(pq) /\ Len(p) + i \in 1 .. Len(pqr)
    BY <1>1, <1>2
  <2>. QED  BY <1>1, <1>2, <1>3, <2>1
<1>6. \A i \in 1 .. Len(r) : all[Len(p) + Len(q) + i] = r[i]
  <2>1. ASSUME NEW i \in 1 .. Len(r)
        PROVE  Len(pq) + i \in 1 .. Len(pqr)
    BY <1>1, <1>2
  <2>. QED  BY <1>1, <1>2, <1>3, <2>1
<1>7. Len(pqr) = Len(p) + Len(q) + Len(r)
  BY <1>1, <1>2
<1>8. ASSUME NEW k \in DOMAIN all
      PROVE  \/ k \in 1 .. Len(p)
             \/ \E i \in 1 .. Len(q) : k = Len(p) + i
             \/ \E i \in 1 .. Len(r) : k = Len(p) + Len(q) + i
             \/ \E i \in 1 .. Len(w) : k = Len(p) + Len(q) + Len(r) + i
  <2>1. k \in 1 .. Len(p) + Len(q) + Len(r) + Len(w)
    BY <1>3, <1>7
  <2>2. CASE k <= Len(p)
    BY <1>1, <2>1, <2>2
  <2>3. CASE k > Len(p) /\ k <= Len(p) + Len(q)
    <3>1. k - Len(p) \in 1 .. Len(q) /\ k = Len(p) + (k - Len(p))
      BY <1>1, <2>1, <2>3
    <3>. QED  BY <3>1
  <2>4. CASE k > Len(p) + Len(q) /\ k <= Len(p) + Len(q) + Len(r)
    <3>. DEFINE i == k - (Len(p) + Len(q))
    <3>1. i \in 1 .. Len(r) /\ k = Len(p) + Len(q) + i
      BY <1>1, <1>2, <2>1, <2>4
    <3>. QED  BY <3>1
  <2>5. CASE k > Len(p) + Len(q) + Len(r)
    <3>. DEFINE i == k - (Len(p) + Len(q) + Len(r))
    <3>1. i \in 1 .. Len(w) /\ k = Len(p) + Len(q) + Len(r) + i
      BY <1>1, <1>2, <1>3, <2>1, <2>5
    <3>. QED  BY <3>1
  <2>. QED  BY <1>1, <1>2, <2>1, <2>2, <2>3, <2>4, <2>5
<1>9. \A i \in DOMAIN q : Len(p) + i \in DOMAIN all /\ all[Len(p) + i] = q[i]
  BY <1>1, <1>2, <1>3, <1>5, <1>7
<1>10. \A i \in DOMAIN r : Len(p) + Len(q) + i \in DOMAIN all /\ all[Len(p) + Len(q) + i] = r[i]
  BY <1>1, <1>2, <1>3, <1>6, <1>7
<1>11. \A i \in DOMAIN w : all[Len(p) + Len(q) + Len(r) + i] = w[i]
  BY <1>3, <1>7
<1>12. ASSUME NEW k \in DOMAIN all
       PROVE  \E bs \in {p, q, r, w} : \E i \in DOMAIN bs : all[k] = bs[i]
  <2>1. CASE k \in 1 .. Len(p)
    <3>1. k \in DOMAIN p /\ all[k] = p[k]
      BY <1>1, <1>4, <2>1
    <3>. QED  BY <3>1
  <2>2. CASE \E i \in 1 .. Len(q) : k = Len(p) + i
    <3>1. PICK i \in DOMAIN q : all[k] = q[i]
      BY <1>1, <1>5, <2>2
    <3>. QED  BY <3>1
  <2>3. CASE \E i \in 1 .. Len(r) : k = Len(p) + Len(q) + i
    <3>1. PICK i \in DOMAIN r : all[k] = r[i]
      BY <1>2, <1>6, <2>3
    <3>. QED  BY <3>1
  <2>4. CASE \E i \in 1 .. Len(w) : k = Len(p) + Len(q) + Len(r) + i
    <3>1. PICK i \in 1 .. Len(w) : k = Len(p) + Len(q) + Len(r) + i
      BY <2>4
    <3>2. i \in DOMAIN w
      BY <1>3
    <3>3. all[k] = w[i]
      BY <1>11, <3>1, <3>2
    <3>. QED  BY <3>2, <3>3
  <2>. QED  BY <1>8, <2>1, <2>2, <2>3, <2>4
<1>13. /\ 0 \in Nat /\ Len(p) \in Nat /\ Len(p) + Len(q) \in Nat
       /\ Len(p) + Len(q) + Len(r) \in Nat
       /\ DOMAIN p \subseteq Nat /\ DOMAIN q \subseteq Nat
       /\ DOMAIN r \subseteq Nat /\ DOMAIN w \subseteq Nat
  BY <1>1, <1>2, <1>3
<1>14. Placed(p, all)
  <2>1. \A i \in DOMAIN p : 0 + i \in DOMAIN all /\ all[0 + i] = p[i]
    BY <1>1, <1>2, <1>3, <1>4, <1>7
  <2>. QED  BY <1>13, <2>1, Zenon DEF Placed
<1>15. Placed(q, all)
  BY <1>9, <1>13, Zenon DEF Placed
<1>16. Placed(r, all)
  BY <1>10, <1>13, Zenon DEF Placed
<1>17. Placed(w, all)
  <2>1. \A i \in DOMAIN w : /\ Len(p) + Len(q) + Len(r) + i \in DOMAIN all
                           /\ all[Len(p) + Len(q) + Len(r) + i] = w[i]
    BY <1>1, <1>2, <1>3, <1>7, <1>11
  <2>. QED  BY <1>13, <2>1, Zenon DEF Placed
<1>. QED  BY <1>3, <1>12, <1>14, <1>15, <1>16, <1>17, Zenon DEF Joins

LEMMA DocumentFacts ==
    ASSUME NEW d \in Documents
    PROVE  /\ d.checks \in Seq(PlainBlocks) /\ d.steps \in Seq(StepBlocks)
           /\ d.rollbacks \in Seq(RollbackBlocks) /\ d.waits \in Seq(PlainBlocks)
           /\ d.checks \in Seq(AnyBlocks) /\ d.steps \in Seq(AnyBlocks)
           /\ d.rollbacks \in Seq(AnyBlocks) /\ d.waits \in Seq(AnyBlocks)
<1>1. /\ d.checks \in Seq(PlainBlocks) /\ d.steps \in Seq(StepBlocks)
      /\ d.rollbacks \in Seq(RollbackBlocks) /\ d.waits \in Seq(PlainBlocks)
  BY DEF Documents
<1>2. PlainBlocks \subseteq AnyBlocks /\ StepBlocks \subseteq AnyBlocks /\ RollbackBlocks \subseteq AnyBlocks
  BY DEF AnyBlocks
<1>3. d.checks \in Seq(AnyBlocks) /\ d.waits \in Seq(AnyBlocks)
  BY <1>1, <1>2, SeqWidens
<1>4. d.steps \in Seq(AnyBlocks)
  BY <1>1, <1>2, SeqWidens
<1>5. d.rollbacks \in Seq(AnyBlocks)
  BY <1>1, <1>2, SeqWidens
<1>. QED  BY <1>1, <1>3, <1>4, <1>5

(* Where a document's steps and rollbacks are among its blocks.            *)
LEMMA PlacesOfBlocks ==
    ASSUME NEW S, NEW d, d.checks \in Seq(S), d.steps \in Seq(S),
           d.rollbacks \in Seq(S), d.waits \in Seq(S)
    PROVE  Blocks(d) \in Seq(S) /\ Joins(Blocks(d), d.checks, d.steps, d.rollbacks, d.waits)
<1>1. Blocks(d) = d.checks \o d.steps \o d.rollbacks \o d.waits
  BY DEF Blocks
<1>. QED  BY <1>1, Joined

(* Substitution changes the values and the references of a block only.     *)
FilledIn(f, b, c) ==
    /\ f.name = b.name /\ f.bare = b.bare
    /\ f.values = [v \in References(b) \cap DOMAIN c |-> c[v]]
    /\ f.refs = {r \in b.refs : r.form # "plain" \/ r.name \notin DOMAIN c}
                 \cup UNION {Brought(f.values[v]) : v \in DOMAIN f.values}
    /\ b \in StepBlocks => /\ f.rollback = b.rollback /\ f.dependsOn = b.dependsOn
                           /\ f.timeout = b.timeout /\ f.env = b.env

LEMMA SubstitutedBlock ==
    ASSUME NEW b \in AnyBlocks, NEW c
    PROVE  FilledIn(SubstituteVars(b, c), b, c)
<1>. DEFINE vals == [v \in References(b) \cap DOMAIN c |-> c[v]]
            refs == {r \in b.refs : r.form # "plain" \/ r.name \notin DOMAIN c}
                    \cup UNION {Brought(vals[v]) : v \in DOMAIN vals}
<1>1. SubstituteVars(b, c) = [[b EXCEPT !.values = vals] EXCEPT !.refs = refs]
  BY DEF SubstituteVars, AnyBlocks, PlainBlocks, StepBlocks, RollbackBlocks
<1>. DEFINE f == SubstituteVars(b, c)
<1>. HIDE DEF vals, refs
<1>2. /\ f.name = b.name /\ f.bare = b.bare /\ f.values = vals /\ f.refs = refs
      /\ b \in StepBlocks => /\ f.rollback = b.rollback /\ f.dependsOn = b.dependsOn
                             /\ f.timeout = b.timeout /\ f.env = b.env
  BY <1>1 DEF AnyBlocks, PlainBlocks, StepBlocks, RollbackBlocks
<1>. HIDE DEF f
<1>. QED  BY <1>2 DEF FilledIn, vals, refs, f

(* A command whose own names are all bound, and which is not empty before  *)
(* its values are put in, has a name left, or nothing at all, only by what *)
(* the values are.                                                         *)
FlawedOnlyByValues(f) ==
    /\ \A name \in References(f) : CameWithAValue(f, name)
    /\ EmptiedCommand(f) => DOMAIN f.values # {}

LEMMA OnlyValuesFlaw ==
    ASSUME NEW b, NEW c, NEW f, FilledIn(f, b, c), References(b) \subseteq DOMAIN c, ~NoCommand(b)
    PROVE  FlawedOnlyByValues(f)
<1>1. \A r \in b.refs : r.form = "plain" => r.name \in References(b)
  BY DEF References
<1>2. \A r \in b.refs : r.form # "plain" \/ r.name \notin DOMAIN c => r.form # "plain"
  BY <1>1
<1>3. ASSUME NEW name \in References(f)  PROVE CameWithAValue(f, name)
  <2>1. PICK r \in f.refs : r.form = "plain" /\ r.name = name
    BY DEF References
  <2>2. r \in UNION {Brought(f.values[v]) : v \in DOMAIN f.values}
    BY <1>2, <2>1 DEF FilledIn
  <2>. QED  BY <2>1, <2>2 DEF CameWithAValue
<1>4. ASSUME EmptiedCommand(f), DOMAIN f.values = {}  PROVE FALSE
  <2>1. f.bare /\ f.refs = {}
    BY <1>4 DEF EmptiedCommand, NoCommand
  <2>2. References(b) = {}
    BY <1>4 DEF FilledIn
  <2>3. b.refs \subseteq f.refs
    BY <1>1, <2>2 DEF FilledIn
  <2>. QED  BY <2>1, <2>3 DEF FilledIn, NoCommand
<1>. QED  BY <1>3, <1>4 DEF FlawedOnlyByValues

(* The blocks of a document whose commands were filled in: each is a block *)
(* of the document with its own values.                                    *)
FilledDocument(r, d, c) ==
    /\ r.steps = [k \in DOMAIN d.steps |-> SubstituteVars(d.steps[k], c)]
    /\ r.rollbacks = [k \in DOMAIN d.rollbacks |-> SubstituteVars(d.rollbacks[k], c)]
    /\ r.checks = [k \in DOMAIN d.checks |-> SubstituteVars(d.checks[k], c)]
    /\ r.waits = [k \in DOMAIN d.waits |-> SubstituteVars(d.waits[k], c)]
    /\ r.maxParallel = d.maxParallel
    /\ Joins(Blocks(r), r.checks, r.steps, r.rollbacks, r.waits)
    /\ \A k \in DOMAIN Blocks(r) :
          \E bs \in {d.checks, d.steps, d.rollbacks, d.waits} :
             \E i \in DOMAIN bs : Blocks(r)[k] = SubstituteVars(bs[i], c)

LEMMA SubstitutedFacts ==
    ASSUME NEW d \in Documents, NEW c
    PROVE  FilledDocument(Substituted(d, c), d, c)
<1>. DEFINE r == Substituted(d, c)
            Each(bs) == [k \in DOMAIN bs |-> SubstituteVars(bs[k], c)]
            Filled == {SubstituteVars(b, c) : b \in AnyBlocks}
<1>1. /\ r.checks = Each(d.checks) /\ r.steps = Each(d.steps)
      /\ r.rollbacks = Each(d.rollbacks) /\ r.waits = Each(d.waits)
      /\ r.maxParallel = d.maxParallel
  BY DEF Substituted, Documents
<1>. HIDE DEF r
<1>2. ASSUME NEW bs \in Seq(AnyBlocks)  PROVE Each(bs) \in Seq(Filled)
  <2>1. DOMAIN bs = 1 .. Len(bs) /\ Len(bs) \in Nat /\ \A i \in DOMAIN bs : bs[i] \in AnyBlocks
    OBVIOUS
  <2>2. \A i \in DOMAIN bs : SubstituteVars(bs[i], c) \in Filled
    BY <2>1
  <2>. HIDE DEF Filled
  <2>. QED  BY <2>1, <2>2
<1>3. /\ r.checks \in Seq(Filled) /\ r.steps \in Seq(Filled)
      /\ r.rollbacks \in Seq(Filled) /\ r.waits \in Seq(Filled)
  <2>. HIDE DEF Each, Filled
  <2>. QED  BY <1>1, <1>2, DocumentFacts
<1>4. Joins(Blocks(r), r.checks, r.steps, r.rollbacks, r.waits)
  <2>. HIDE DEF Filled
  <2>. QED  BY <1>3, PlacesOfBlocks
<1>5. ASSUME NEW k \in DOMAIN Blocks(r)
      PROVE  \E bs \in {d.checks, d.steps, d.rollbacks, d.waits} :
                \E i \in DOMAIN bs : Blocks(r)[k] = SubstituteVars(bs[i], c)
  <2>1. PICK fs \in {r.checks, r.steps, r.rollbacks, r.waits} :
               \E i \in DOMAIN fs : Blocks(r)[k] = fs[i]
    BY <1>4, Zenon DEF Joins
  <2>2. PICK bs \in {d.checks, d.steps, d.rollbacks, d.waits} : fs = Each(bs)
    <3>. HIDE DEF Each
    <3>. QED  BY <1>1, <2>1
  <2>3. PICK i \in DOMAIN fs : Blocks(r)[k] = fs[i]
    BY <2>1
  <2>4. i \in DOMAIN bs /\ fs[i] = SubstituteVars(bs[i], c)
    BY <2>2, <2>3
  <2>. QED  BY <2>2, <2>3, <2>4
<1>. QED  BY <1>1, <1>4, <1>5 DEF r, FilledDocument

-----------------------------------------------------------------------------
(***************************************************************************)
(* The filter: the steps it keeps are different steps of the document.     *)
(***************************************************************************)
Rank(K, s) == Cardinality({r \in K : r < s})

LEMMA RankFacts ==
    ASSUME NEW K \in SUBSET Nat, IsFiniteSet(K)
    PROVE  /\ Cardinality(K) \in Nat
           /\ \A s \in K : Rank(K, s) \in 0 .. Cardinality(K) - 1
           /\ \A s, t \in K : s < t => Rank(K, s) < Rank(K, t)
<1>. DEFINE Below(s) == {r \in K : r < s}
<1>1. Cardinality(K) \in Nat
  BY FS_CardinalityType
<1>2. ASSUME NEW s \in K, NEW t, Below(s) \in SUBSET Below(t), s \in Below(t)
      PROVE  Rank(K, s) < Rank(K, t)
  <2>1. IsFiniteSet(Below(t)) /\ IsFiniteSet(Below(s))
    <3>1. Below(t) \in SUBSET K /\ Below(s) \in SUBSET K
      OBVIOUS
    <3>. HIDE DEF Below
    <3>. QED  BY <3>1, FS_Subset
  <2>2. s \notin Below(s)
    OBVIOUS
  <2>. HIDE DEF Below
  <2>3. Cardinality(Below(s)) <= Cardinality(Below(t)) /\ Cardinality(Below(s)) # Cardinality(Below(t))
    BY <1>2, <2>1, <2>2, FS_Subset
  <2>4. Cardinality(Below(s)) \in Nat /\ Cardinality(Below(t)) \in Nat
    BY <2>1, FS_CardinalityType
  <2>. QED  BY <2>3, <2>4 DEF Rank, Below
<1>3. ASSUME NEW s \in K, NEW t \in K, s < t  PROVE Rank(K, s) < Rank(K, t)
  <2>1. s \in Nat /\ t \in Nat /\ \A r \in K : r \in Nat
    OBVIOUS
  <2>2. \A r \in K : r < s => r < t
    BY <1>3, <2>1
  <2>3. Below(s) \in SUBSET Below(t) /\ s \in Below(t)
    BY <1>3, <2>2
  <2>. QED  BY <1>2, <2>3
<1>4. ASSUME NEW s \in K  PROVE Rank(K, s) \in 0 .. Cardinality(K) - 1
  <2>1. Below(s) \in SUBSET K /\ Below(s) # K
    OBVIOUS
  <2>. HIDE DEF Below
  <2>2. /\ IsFiniteSet(Below(s)) /\ Cardinality(Below(s)) <= Cardinality(K)
        /\ Cardinality(K) # Cardinality(Below(s))
    BY <2>1, FS_Subset
  <2>3. Cardinality(Below(s)) \in Nat
    BY <2>2, FS_CardinalityType
  <2>. QED  BY <1>1, <2>2, <2>3 DEF Rank, Below
<1>. QED  BY <1>1, <1>3, <1>4

LEMMA Increasing ==
    ASSUME NEW K \in SUBSET Nat, IsFiniteSet(K)
    PROVE  \E p \in [1 .. Cardinality(K) -> K] :
              \A i, j \in 1 .. Cardinality(K) : i < j => p[i] < p[j]
<1>. DEFINE n == Cardinality(K)
            f == [s \in K |-> Rank(K, s) + 1]
            p == [i \in 1 .. n |-> CHOOSE s \in K : f[s] = i]
<1>1. /\ n \in Nat /\ \A s \in K : Rank(K, s) \in 0 .. n - 1
      /\ \A s, t \in K : s < t => Rank(K, s) < Rank(K, t)
  BY RankFacts
<1>. HIDE DEF n
<1>2. f \in [K -> 1 .. n] /\ \A s, t \in K : s < t => f[s] < f[t]
  BY <1>1
<1>. HIDE DEF f
<1>3. \A s, t \in K : f[s] = f[t] => s = t
  <2>1. \A s, t \in K : s < t \/ t < s \/ s = t
    OBVIOUS
  <2>. QED  BY <1>1, <1>2, <2>1
<1>4. f \in Injection(K, 1 .. n)
  BY <1>2, <1>3 DEF Injection, IsInjective
<1>5. IsFiniteSet(1 .. n) /\ Cardinality(1 .. n) = n
  BY <1>1, FS_Interval
<1>6. f \in Surjection(K, 1 .. n)
  BY <1>4, <1>5, FS_Injection DEF n
<1>7. \A i \in 1 .. n : \E s \in K : f[s] = i
  BY <1>6 DEF Surjection
<1>8. \A i \in 1 .. n : p[i] \in K /\ f[p[i]] = i
  BY <1>7
<1>9. p \in [1 .. n -> K]
  BY <1>8
<1>. HIDE DEF p
<1>10. ASSUME NEW i \in 1 .. n, NEW j \in 1 .. n, i < j  PROVE p[i] < p[j]
  <2>1. p[i] \in K /\ p[j] \in K /\ f[p[i]] = i /\ f[p[j]] = j
    BY <1>8
  <2>2. p[i] < p[j] \/ p[j] < p[i] \/ p[i] = p[j]
    <3>1. p[i] \in Nat /\ p[j] \in Nat
      BY <2>1
    <3>. QED  BY <3>1
  <2>3. p[j] < p[i] => j < i
    BY <1>2, <2>1
  <2>. QED  BY <1>1, <1>10, <2>1, <2>2, <2>3
<1>. QED  BY <1>9, <1>10 DEF n

SomeStepsOf(f, d) ==
    /\ f \in Documents /\ f.maxParallel = d.maxParallel
    /\ f.checks = d.checks /\ f.rollbacks = d.rollbacks /\ f.waits = d.waits
    /\ \E at \in [DOMAIN f.steps -> DOMAIN d.steps] :
          /\ \A i \in DOMAIN f.steps : f.steps[i] = d.steps[at[i]]
          /\ \A i, j \in DOMAIN f.steps : i # j => at[i] # at[j]

(* internal/resolver, filterByEnv: exactly the steps that are meant for    *)
(* the target, or for any, are kept, and in their order.                   *)
IsFor(step, target) == step.env = {} \/ ContainsEnv(step.env, target)

KeepsItsOwn(f, d, target) ==
    \E at \in [DOMAIN f.steps -> DOMAIN d.steps] :
       /\ \A i, j \in DOMAIN f.steps : i < j => at[i] < at[j]
       /\ \A i \in DOMAIN f.steps : f.steps[i] = d.steps[at[i]]
       /\ \A k \in DOMAIN d.steps :
             IsFor(d.steps[k], target) <=> \E i \in DOMAIN f.steps : at[i] = k

THEOREM FilterIsExact ==
    ASSUME NEW d \in Documents, NEW target
    PROVE  /\ SomeStepsOf(FilterByEnv(d, target), d)
           /\ KeepsItsOwn(FilterByEnv(d, target), d, target)
<1>. DEFINE kept == {k \in DOMAIN d.steps :
                       d.steps[k].env = {} \/ ContainsEnv(d.steps[k].env, target)}
            n    == Cardinality(kept)
            at   == CHOOSE p \in [1 .. n -> kept] : \A i, j \in 1 .. n : i < j => p[i] < p[j]
            q    == [i \in 1 .. n |-> d.steps[at[i]]]
            f    == [d EXCEPT !.steps = q]
<1>1. FilterByEnv(d, target) = f
  BY DEF FilterByEnv
<1>2. d.steps \in Seq(StepBlocks) /\ DOMAIN d.steps = 1 .. Len(d.steps) /\ Len(d.steps) \in Nat
      /\ \A k \in DOMAIN d.steps : d.steps[k] \in StepBlocks
  BY DocumentFacts
<1>3. kept \in SUBSET Nat /\ kept \in SUBSET DOMAIN d.steps /\ IsFiniteSet(DOMAIN d.steps)
  BY <1>2, FS_Interval
<1>. HIDE DEF kept
<1>4. IsFiniteSet(kept) /\ n \in Nat
  BY <1>3, FS_Subset, FS_CardinalityType
<1>5. \E p \in [1 .. n -> kept] : \A i, j \in 1 .. n : i < j => p[i] < p[j]
  BY <1>3, <1>4, Increasing
<1>. HIDE DEF n
<1>6. at \in [1 .. n -> kept] /\ \A i, j \in 1 .. n : i < j => at[i] < at[j]
  BY <1>5
<1>. HIDE DEF at
<1>7. \A i, j \in 1 .. n : i # j => at[i] # at[j]
  <2>1. \A i \in 1 .. n : at[i] \in Nat
    BY <1>3, <1>6
  <2>. QED  BY <1>4, <1>6, <2>1
<1>8. q \in Seq(StepBlocks) /\ DOMAIN q = 1 .. n
  <2>1. \A i \in 1 .. n : d.steps[at[i]] \in StepBlocks
    BY <1>2, <1>3, <1>6
  <2>. QED  BY <1>4, <2>1
<1>9. \A i \in 1 .. n : q[i] = d.steps[at[i]]
  OBVIOUS
<1>. HIDE DEF q
<1>10. f \in Documents /\ f.steps = q /\ f.maxParallel = d.maxParallel
       /\ f.checks = d.checks /\ f.rollbacks = d.rollbacks /\ f.waits = d.waits
  BY <1>8 DEF Documents
<1>11. at \in [1 .. n -> DOMAIN d.steps]
  BY <1>3, <1>6
<1>. HIDE DEF f
<1>12. at \in [DOMAIN f.steps -> DOMAIN d.steps]
  BY <1>8, <1>10, <1>11
<1>13. /\ \A i \in DOMAIN f.steps : f.steps[i] = d.steps[at[i]]
       /\ \A i, j \in DOMAIN f.steps : i # j => at[i] # at[j]
  BY <1>7, <1>8, <1>9, <1>10
<1>14. SomeStepsOf(f, d)
  BY <1>10, <1>12, <1>13, Zenon DEF SomeStepsOf
<1>15. \A k \in DOMAIN d.steps :
          IsFor(d.steps[k], target) <=> \E i \in DOMAIN f.steps : at[i] = k
  <2>1. at \in Injection(1 .. n, kept)
    BY <1>6, <1>7 DEF Injection, IsInjective
  <2>2. IsFiniteSet(1 .. n) /\ Cardinality(1 .. n) = n
    BY <1>4, FS_Interval
  <2>3. at \in Surjection(1 .. n, kept)
    BY <1>4, <2>1, <2>2, FS_Injection DEF n
  <2>4. \A k \in kept : \E i \in 1 .. n : at[i] = k
    BY <2>3 DEF Surjection
  <2>5. \A k \in DOMAIN d.steps : k \in kept <=> IsFor(d.steps[k], target)
    BY DEF kept, IsFor
  <2>6. DOMAIN f.steps = 1 .. n
    BY <1>8, <1>10
  <2>. QED  BY <1>6, <2>4, <2>5, <2>6
<1>16. \A i, j \in DOMAIN f.steps : i < j => at[i] < at[j]
  BY <1>6, <1>8, <1>10
<1>17. KeepsItsOwn(f, d, target)
  BY <1>12, <1>13, <1>15, <1>16, Zenon DEF KeepsItsOwn
<1>. QED  BY <1>1, <1>14, <1>17

LEMMA FilteredFacts ==
    ASSUME NEW d \in Documents, NEW s
    PROVE  SomeStepsOf(Filtered(d, s), d)
<1>1. CASE Filtered(d, s) = d
  <2>. DEFINE at == [i \in DOMAIN d.steps |-> i]
  <2>1. at \in [DOMAIN d.steps -> DOMAIN d.steps] /\ \A i \in DOMAIN d.steps : at[i] = i
    OBVIOUS
  <2>. HIDE DEF at
  <2>. QED  BY <1>1, <2>1 DEF SomeStepsOf
<1>2. ASSUME NEW target, Filtered(d, s) = FilterByEnv(d, target)
      PROVE  SomeStepsOf(Filtered(d, s), d)
  BY <1>2, FilterIsExact
<1>3. Filtered(d, s) = d \/ \E target : Filtered(d, s) = FilterByEnv(d, target)
  BY Zenon DEF Filtered
<1>. QED  BY <1>1, <1>2, <1>3

-----------------------------------------------------------------------------
(***************************************************************************)
(* The validator: what a document without errors is known to satisfy.      *)
(***************************************************************************)
Waits(d) == {e \in NamesIn(d.steps) \X NamesIn(d.steps) : DependsOn(d, e[1], e[2])}

Sound(d) ==
    /\ \A i, j \in DOMAIN Blocks(d) : i # j => Blocks(d)[i].name # Blocks(d)[j].name
    /\ \A k \in DOMAIN Blocks(d) : ~NoCommand(Blocks(d)[k])
    /\ \A i \in DOMAIN d.steps :
          d.steps[i].rollback # NoBlock => d.steps[i].rollback \in NamesIn(d.rollbacks)
    /\ \A i, j \in DOMAIN d.steps :
          i # j /\ d.steps[i].rollback # NoBlock => d.steps[i].rollback # d.steps[j].rollback
    /\ \A i \in DOMAIN d.steps : d.steps[i].timeout # Unparsable
    /\ ~HasCycle(NamesIn(d.steps), Waits(d))
    /\ d.maxParallel \in 0 .. MaxParallelUpperBound

Clean(raised) == \A i \in raised : i.severity # "error"

LEMMA NoNames ==
    ASSUME NEW rule, NEW names, Clean(Errors(rule, names))
    PROVE  names = {}
<1>1. \A n \in names : Issue(rule, "error", n) \in Errors(rule, names)
  BY DEF Errors
<1>2. \A n : Issue(rule, "error", n).severity = "error"
  BY DEF Issue
<1>. QED  BY <1>1, <1>2 DEF Clean

LEMMA TwoAreTwo ==
    ASSUME NEW S, IsFiniteSet(S), NEW i \in S, NEW j \in S, i # j
    PROVE  Cardinality(S) > 1
<1>1. IsFiniteSet(S \ {i}) /\ Cardinality(S \ {i}) = Cardinality(S) - 1
  BY FS_RemoveElement
<1>2. Cardinality(S \ {i}) # 0
  BY <1>1, FS_EmptySet
<1>3. Cardinality(S) \in Nat /\ Cardinality(S \ {i}) \in Nat
  BY <1>1, FS_CardinalityType
<1>. QED  BY <1>1, <1>2, <1>3

LEMMA WithoutErrors ==
    ASSUME NEW d, NEW strict, NEW order, ~HasErrors(Validate(d, strict, order))
    PROVE  /\ Clean(V1UniqueNames(d)) /\ Clean(V2RollbackRefs(d)) /\ Clean(V6StepTimeouts(d))
           /\ Clean(V8RollbackCycles(d, order)) /\ Clean(V11NonEmptyCommands(d))
           /\ Clean(V21DependsOnCycles(d)) /\ Clean(V22MaxParallel(d))
BY DEF HasErrors, Validate, Clean

LEMMA ValidMeansSound ==
    ASSUME NEW d \in Documents, NEW strict, NEW order, ~HasErrors(Validate(d, strict, order))
    PROVE  Sound(d)
<1>. DEFINE all == Blocks(d)
<1>1. /\ d.checks \in Seq(AnyBlocks) /\ d.steps \in Seq(AnyBlocks)
      /\ d.rollbacks \in Seq(AnyBlocks) /\ d.waits \in Seq(AnyBlocks)
      /\ d.steps \in Seq(StepBlocks)
  BY DocumentFacts
<1>2. /\ Clean(V1UniqueNames(d)) /\ Clean(V2RollbackRefs(d)) /\ Clean(V6StepTimeouts(d))
      /\ Clean(V8RollbackCycles(d, order)) /\ Clean(V11NonEmptyCommands(d))
      /\ Clean(V21DependsOnCycles(d)) /\ Clean(V22MaxParallel(d))
  BY WithoutErrors
<1>3. all \in Seq(AnyBlocks)
  BY <1>1, PlacesOfBlocks
<1>4. DOMAIN all = 1 .. Len(all) /\ Len(all) \in Nat
      /\ DOMAIN d.steps = 1 .. Len(d.steps) /\ Len(d.steps) \in Nat
  BY <1>1, <1>3
<1>. HIDE DEF all
<1>5. \A i, j \in DOMAIN all : i # j => all[i].name # all[j].name
  <2>. DEFINE twice == {k \in DOMAIN all : \E j \in 1 .. k - 1 : all[j].name = all[k].name}
  <2>1. {all[k].name : k \in twice} = {}
    BY <1>2, NoNames DEF V1UniqueNames, all
  <2>2. \A i, j \in DOMAIN all : i < j => all[i].name # all[j].name
    <3>1. ASSUME NEW i \in DOMAIN all, NEW j \in DOMAIN all, i < j, all[i].name = all[j].name
          PROVE  FALSE
      <4>1. i \in 1 .. j - 1
        BY <1>4, <3>1
      <4>2. j \in twice
        BY <3>1, <4>1
      <4>. QED  BY <2>1, <4>2
    <3>. QED  BY <3>1
  <2>. QED  BY <1>4, <2>2
<1>6. \A k \in DOMAIN all : ~NoCommand(all[k])
  <2>1. {all[k].name : k \in {i \in DOMAIN all : NoCommand(all[i])}} = {}
    BY <1>2, NoNames DEF V11NonEmptyCommands, NamesWith, all
  <2>. QED  BY <2>1
<1>7. \A i \in DOMAIN d.steps :
         d.steps[i].rollback # NoBlock => d.steps[i].rollback \in NamesIn(d.rollbacks)
  <2>1. {d.steps[k].name : k \in {i \in DOMAIN d.steps :
            d.steps[i].rollback # NoBlock /\ d.steps[i].rollback \notin NamesIn(d.rollbacks)}} = {}
    BY <1>2, NoNames DEF V2RollbackRefs, NamesWith
  <2>. QED  BY <2>1
<1>8. \A i, j \in DOMAIN d.steps :
         i # j /\ d.steps[i].rollback # NoBlock => d.steps[i].rollback # d.steps[j].rollback
  <2>. DEFINE owners(n) == {k \in DOMAIN d.steps : d.steps[k].rollback = n}
              shared == {n \in {d.steps[k].rollback : k \in DOMAIN d.steps} \ {NoBlock} :
                           Cardinality(owners(n)) > 1}
  <2>1. shared = {}
    <3>1. PICK p, q : V8RollbackCycles(d, order) = Errors("v8", p \cup q \cup shared)
      BY DEF V8RollbackCycles
    <3>2. p \cup q \cup shared = {}
      BY <1>2, <3>1, NoNames
    <3>. QED  BY <3>2
  <2>2. ASSUME NEW i \in DOMAIN d.steps, NEW j \in DOMAIN d.steps, i # j,
               d.steps[i].rollback # NoBlock, d.steps[i].rollback = d.steps[j].rollback
        PROVE  FALSE
    <3>. DEFINE n == d.steps[i].rollback
    <3>1. i \in owners(n) /\ j \in owners(n) /\ owners(n) \in SUBSET DOMAIN d.steps
      BY <2>2
    <3>2. IsFiniteSet(DOMAIN d.steps)
      <4>1. Len(d.steps) \in Int /\ 1 \in Int
        BY <1>4
      <4>2. IsFiniteSet(1 .. Len(d.steps))
        BY <4>1, FS_Interval
      <4>. QED  BY <1>4, <4>2
    <3>. HIDE DEF owners
    <3>a. IsFiniteSet(owners(n))
      BY <3>1, <3>2, FS_Subset
    <3>3. Cardinality(owners(n)) > 1
      BY <2>2, <3>1, <3>a, TwoAreTwo
    <3>. QED  BY <2>1, <2>2, <3>3
  <2>. QED  BY <2>2
<1>9. \A i \in DOMAIN d.steps : d.steps[i].timeout # Unparsable
  <2>. DEFINE bad == {d.steps[k].name : k \in {i \in DOMAIN d.steps :
                         d.steps[i].timeout = Unparsable}}
  <2>1. Clean(Errors("v6", bad))
    BY <1>2 DEF V6StepTimeouts, NamesWith, Clean
  <2>2. bad = {}
    BY <2>1, NoNames
  <2>. QED  BY <2>2
<1>10. ~HasCycle(NamesIn(d.steps), Waits(d))
  <2>1. SUFFICES ASSUME HasCycle(NamesIn(d.steps), Waits(d))  PROVE FALSE
    OBVIOUS
  <2>2. V21DependsOnCycles(d) = Errors("v21", {NoBlock})
    BY <2>1, Zenon DEF V21DependsOnCycles, Waits
  <2>. QED  BY <1>2, <2>2, NoNames
<1>11. d.maxParallel \in 0 .. MaxParallelUpperBound
  <2>1. SUFFICES ASSUME d.maxParallel \notin 0 .. MaxParallelUpperBound  PROVE FALSE
    OBVIOUS
  <2>2. V22MaxParallel(d) = Errors("v22", {NoBlock})
    BY <2>1, Zenon DEF V22MaxParallel
  <2>. QED  BY <1>2, <2>2, NoNames
<1>. QED  BY <1>5, <1>6, <1>7, <1>8, <1>9, <1>10, <1>11 DEF Sound, all

-----------------------------------------------------------------------------
(***************************************************************************)
(* A sound document is one the executor can run, filtered and filled in.   *)
(***************************************************************************)
Runnable(t) ==
    /\ \A i, j \in DOMAIN t.steps :
          i # j => /\ t.steps[i].name # t.steps[j].name
                   /\ \/ t.steps[i].rollback = NoBlock
                      \/ t.steps[i].rollback # t.steps[j].rollback
    /\ \A i \in DOMAIN t.steps :
          t.steps[i].rollback # NoBlock =>
             Cardinality({k \in DOMAIN t.rollbacks :
                 t.rollbacks[k].name = t.steps[i].rollback}) = 1
    /\ ~ \E U \in SUBSET DOMAIN t.steps :
            /\ U # {}
            /\ \A i \in U : \E j \in U : \E k \in DOMAIN t.steps[i].dependsOn :
                  t.steps[i].dependsOn[k] = t.steps[j].name
    /\ \A k \in DOMAIN Blocks(t) : FlawedOnlyByValues(Blocks(t)[k])
    /\ \A i \in DOMAIN t.steps : t.steps[i].timeout # Unparsable
    /\ t.maxParallel \in 0 .. MaxParallelUpperBound

(* Blocks of one list have different names when all blocks have.           *)
LEMMA NamesApart ==
    ASSUME NEW all, NEW bs, Placed(bs, all),
           \A i, j \in DOMAIN all : i # j => all[i].name # all[j].name
    PROVE  \A i, j \in DOMAIN bs : i # j => bs[i].name # bs[j].name
<1>1. PICK n \in Nat : \A i \in DOMAIN bs : n + i \in DOMAIN all /\ all[n + i] = bs[i]
  BY DEF Placed
<1>2. DOMAIN bs \subseteq Nat
  BY DEF Placed
<1>3. ASSUME NEW i \in DOMAIN bs, NEW j \in DOMAIN bs, i # j
      PROVE  bs[i].name # bs[j].name
  <2>1. n + i # n + j
    BY <1>2, <1>3
  <2>. QED  BY <1>1, <2>1
<1>. QED  BY <1>3

LEMMA SoundMeansRunnable ==
    ASSUME NEW d \in Documents, Sound(d), NEW s, NEW c,
           NEW t, t = Substituted(Filtered(d, s), c), Unresolved(Filtered(d, s), c) = {}
    PROVE  Runnable(t)
<1>. DEFINE f == Filtered(d, s)
<1>1. SomeStepsOf(f, d)
  BY FilteredFacts
<1>a. t = Substituted(f, c) /\ Unresolved(f, c) = {}
  OBVIOUS
<1>. HIDE DEF f
<1>2. /\ f \in Documents /\ f.maxParallel = d.maxParallel
      /\ f.checks = d.checks /\ f.rollbacks = d.rollbacks /\ f.waits = d.waits
  BY <1>1, Zenon DEF SomeStepsOf
<1>3. PICK at \in [DOMAIN f.steps -> DOMAIN d.steps] :
            /\ \A i \in DOMAIN f.steps : f.steps[i] = d.steps[at[i]]
            /\ \A i, j \in DOMAIN f.steps : i # j => at[i] # at[j]
  BY <1>1, Zenon DEF SomeStepsOf
<1>4. /\ t.steps = [k \in DOMAIN f.steps |-> SubstituteVars(f.steps[k], c)]
      /\ t.rollbacks = [k \in DOMAIN d.rollbacks |-> SubstituteVars(d.rollbacks[k], c)]
      /\ t.maxParallel = d.maxParallel
      /\ \A k \in DOMAIN Blocks(t) :
            \E bs \in {f.checks, f.steps, f.rollbacks, f.waits} :
               \E i \in DOMAIN bs : Blocks(t)[k] = SubstituteVars(bs[i], c)
  <2>1. /\ t.steps = [k \in DOMAIN f.steps |-> SubstituteVars(f.steps[k], c)]
        /\ t.rollbacks = [k \in DOMAIN f.rollbacks |-> SubstituteVars(f.rollbacks[k], c)]
        /\ t.maxParallel = f.maxParallel
        /\ \A k \in DOMAIN Blocks(t) :
              \E bs \in {f.checks, f.steps, f.rollbacks, f.waits} :
                 \E i \in DOMAIN bs : Blocks(t)[k] = SubstituteVars(bs[i], c)
    <3>1. FilledDocument(t, f, c)
      BY <1>a, <1>2, SubstitutedFacts
    <3>. QED  BY <3>1 DEF FilledDocument
  <2>2. t.rollbacks = [k \in DOMAIN d.rollbacks |-> SubstituteVars(d.rollbacks[k], c)]
    BY <1>2, <2>1
  <2>. QED  BY <1>2, <2>1, <2>2
<1>5. /\ \A k \in DOMAIN d.steps : d.steps[k] \in StepBlocks /\ d.steps[k] \in AnyBlocks
      /\ \A k \in DOMAIN d.rollbacks : d.rollbacks[k] \in AnyBlocks
      /\ \A k \in DOMAIN d.checks : d.checks[k] \in AnyBlocks
      /\ \A k \in DOMAIN d.waits : d.waits[k] \in AnyBlocks
  BY DocumentFacts
<1>6. /\ Placed(d.checks, Blocks(d)) /\ Placed(d.steps, Blocks(d))
      /\ Placed(d.rollbacks, Blocks(d)) /\ Placed(d.waits, Blocks(d))
  BY DocumentFacts, PlacesOfBlocks, Zenon DEF Joins
<1>7. /\ DOMAIN t.steps = DOMAIN f.steps /\ DOMAIN t.rollbacks = DOMAIN d.rollbacks
      /\ \A k \in DOMAIN d.rollbacks : t.rollbacks[k].name = d.rollbacks[k].name
      /\ \A i \in DOMAIN t.steps :
            /\ at[i] \in DOMAIN d.steps
            /\ t.steps[i].name = d.steps[at[i]].name
            /\ t.steps[i].rollback = d.steps[at[i]].rollback
            /\ t.steps[i].dependsOn = d.steps[at[i]].dependsOn
            /\ t.steps[i].timeout = d.steps[at[i]].timeout
  <2>1. DOMAIN t.steps = DOMAIN f.steps /\ DOMAIN t.rollbacks = DOMAIN d.rollbacks
    BY <1>4
  <2>2. ASSUME NEW k \in DOMAIN d.rollbacks  PROVE t.rollbacks[k].name = d.rollbacks[k].name
    <3>1. d.rollbacks[k] \in AnyBlocks /\ t.rollbacks[k] = SubstituteVars(d.rollbacks[k], c)
      BY <1>4, <1>5
    <3>2. FilledIn(t.rollbacks[k], d.rollbacks[k], c)
      BY <3>1, SubstitutedBlock
    <3>. QED  BY <3>2 DEF FilledIn
  <2>3. ASSUME NEW i \in DOMAIN t.steps
        PROVE  /\ at[i] \in DOMAIN d.steps
               /\ t.steps[i].name = d.steps[at[i]].name
               /\ t.steps[i].rollback = d.steps[at[i]].rollback
               /\ t.steps[i].dependsOn = d.steps[at[i]].dependsOn
               /\ t.steps[i].timeout = d.steps[at[i]].timeout
    <3>1. at[i] \in DOMAIN d.steps /\ t.steps[i] = SubstituteVars(d.steps[at[i]], c)
      BY <1>3, <1>4, <2>1
    <3>2. d.steps[at[i]] \in StepBlocks /\ d.steps[at[i]] \in AnyBlocks
      BY <1>5, <3>1
    <3>3. FilledIn(t.steps[i], d.steps[at[i]], c)
      BY <3>1, <3>2, SubstitutedBlock
    <3>. QED  BY <3>1, <3>2, <3>3 DEF FilledIn
  <2>. QED  BY <2>1, <2>2, <2>3
<1>8. /\ \A i, j \in DOMAIN d.steps : i # j => d.steps[i].name # d.steps[j].name
      /\ \A i, j \in DOMAIN d.rollbacks : i # j => d.rollbacks[i].name # d.rollbacks[j].name
  BY <1>6, NamesApart DEF Sound
<1>9. ASSUME NEW i \in DOMAIN t.steps, NEW j \in DOMAIN t.steps, i # j
      PROVE  /\ t.steps[i].name # t.steps[j].name
             /\ t.steps[i].rollback = NoBlock \/ t.steps[i].rollback # t.steps[j].rollback
  BY <1>3, <1>7, <1>8, <1>9 DEF Sound
<1>10. ASSUME NEW i \in DOMAIN t.steps, t.steps[i].rollback # NoBlock
       PROVE  Cardinality({k \in DOMAIN t.rollbacks :
                  t.rollbacks[k].name = t.steps[i].rollback}) = 1
  <2>1. PICK k \in DOMAIN d.rollbacks : d.rollbacks[k].name = t.steps[i].rollback
    BY <1>7, <1>10 DEF Sound, NamesIn
  <2>2. {m \in DOMAIN t.rollbacks : t.rollbacks[m].name = t.steps[i].rollback} = {k}
    BY <1>7, <1>8, <2>1
  <2>. QED  BY <2>2, FS_Singleton
<1>11. ASSUME NEW U \in SUBSET DOMAIN t.steps, U # {},
              \A i \in U : \E j \in U : \E k \in DOMAIN t.steps[i].dependsOn :
                 t.steps[i].dependsOn[k] = t.steps[j].name
       PROVE  FALSE
  <2>. DEFINE W == {d.steps[at[i]].name : i \in U}
  <2>1. W \in (SUBSET NamesIn(d.steps)) \ {{}}
    <3>1. \A i \in U : at[i] \in DOMAIN d.steps
      BY <1>7
    <3>2. \A i \in U : d.steps[at[i]].name \in NamesIn(d.steps)
      BY <3>1 DEF NamesIn
    <3>3. PICK i \in U : TRUE
      BY <1>11
    <3>4. d.steps[at[i]].name \in W
      BY <3>3
    <3>. QED  BY <3>2, <3>4
  <2>2. ASSUME NEW v \in W  PROVE \E w \in W : <<v, w>> \in Waits(d)
    <3>1. PICK i \in U : v = d.steps[at[i]].name
      OBVIOUS
    <3>2. PICK j \in U : \E k \in DOMAIN t.steps[i].dependsOn :
                             t.steps[i].dependsOn[k] = t.steps[j].name
      BY <1>11
    <3>. DEFINE w == d.steps[at[j]].name
    <3>3. w \in ToSet(d.steps[at[i]].dependsOn)
      BY <1>7, <3>2 DEF ToSet
    <3>4. DependsOn(d, v, w)
      BY <1>7, <3>1, <3>3 DEF DependsOn
    <3>5. w \in W /\ v \in NamesIn(d.steps) /\ w \in NamesIn(d.steps)
      BY <1>7, <3>1 DEF NamesIn
    <3>. HIDE DEF w, W
    <3>. QED  BY <3>4, <3>5 DEF Waits
  <2>. HIDE DEF W
  <2>3. HasCycle(NamesIn(d.steps), Waits(d))
    BY <2>1, <2>2 DEF HasCycle
  <2>. QED  BY <2>3 DEF Sound
<1>12. ASSUME NEW k \in DOMAIN Blocks(t)
       PROVE  FlawedOnlyByValues(Blocks(t)[k])
  <2>2. PICK bs \in {f.checks, f.steps, f.rollbacks, f.waits} :
               \E i \in DOMAIN bs : Blocks(t)[k] = SubstituteVars(bs[i], c)
    BY <1>4
  <2>3. PICK i \in DOMAIN bs : Blocks(t)[k] = SubstituteVars(bs[i], c)
    BY <2>2
  <2>4. PICK ds \in {d.checks, d.steps, d.rollbacks, d.waits} :
               \E j \in DOMAIN ds : bs[i] = ds[j]
    BY <1>2, <1>3, <2>2, <2>3
  <2>5. PICK j \in DOMAIN ds : bs[i] = ds[j]
    BY <2>4
  <2>1. References(ds[j]) \subseteq DOMAIN c
    <3>1. Joins(Blocks(f), f.checks, f.steps, f.rollbacks, f.waits)
      BY <1>2, DocumentFacts, PlacesOfBlocks
    <3>2. Placed(bs, Blocks(f))
      BY <2>2, <3>1, Zenon DEF Joins
    <3>3. PICK m \in DOMAIN Blocks(f) : Blocks(f)[m] = bs[i]
      BY <3>2 DEF Placed
    <3>4. \A n \in References(Blocks(f)[m]) : n \in DOMAIN c
      BY <1>a DEF Unresolved, NamesWith
    <3>. QED  BY <2>5, <3>3, <3>4
  <2>6. FilledIn(Blocks(t)[k], ds[j], c)
    <3>1. ds[j] \in AnyBlocks
      BY <1>5, <2>4, <2>5
    <3>. QED  BY <2>3, <2>5, <3>1, SubstitutedBlock
  <2>7. Placed(ds, Blocks(d))
    BY <1>6, <2>4
  <2>8. PICK n \in Nat : n + j \in DOMAIN Blocks(d) /\ Blocks(d)[n + j] = ds[j]
    BY <2>7 DEF Placed
  <2>. QED  BY <2>1, <2>6, <2>8, OnlyValuesFlaw DEF Sound
<1>13. \A i \in DOMAIN t.steps : t.steps[i].timeout # Unparsable
  BY <1>7 DEF Sound
<1>14. t.maxParallel \in 0 .. MaxParallelUpperBound
  BY <1>4 DEF Sound
<1>. QED  BY <1>9, <1>10, <1>11, <1>12, <1>13, <1>14 DEF Runnable

-----------------------------------------------------------------------------
(***************************************************************************)
(* The preparation of a run: the invariant.                                *)
(***************************************************************************)
Untouched == {"invoked", "plan", "usage", "dispatch", "parse", "validate"}
Prepared  == {"resolved", "printed", "started"}

(* What has become of the tree at each stage.                              *)
TreeInWork ==
    /\ stage \in Untouched => tree = inv.tree /\ issues = {}
    /\ stage = "resolve" => tree = inv.tree /\ Sound(inv.tree) /\ ~HasErrors(issues)
    /\ stage \in Prepared \cup {"ask"} =>
          /\ Sound(inv.tree)
          /\ tree = ResolvedTree(inv.tree, Sources) /\ UnresolvedBlocks(inv.tree, Sources) = {}
          /\ inv.dotenv.state # "unreadable"

(* Who has answered for a dangerous value, and whose input was read.       *)
DangerSoFar ==
    /\ stage \in Untouched \cup {"resolve", "ask"} => stdin = inv.stdin
    /\ stage = "ask" => ~opts.strict /\ ~opts.dryRun
    /\ stage \in Prepared =>
          /\ MetacharWarnings(tree) # {} =>
                /\ ~opts.strict
                /\ opts.dryRun \/ opts.nonInteractive \/ Consents(inv.stdin)
          /\ opts.dryRun => stdin = inv.stdin
    /\ stage = "printed" => opts.dryRun
    /\ stage = "started" => ~opts.dryRun

(* Why a run ended here.                                                   *)
EndedFor ==
    /\ record <=> stage = "started"
    /\ stage = "failed" /\ issues # {} /\ ~HasErrors(issues) =>
          (status = "validation_error") =
             (inv.dotenv.state # "unreadable" /\ UnresolvedBlocks(inv.tree, Sources) = {})

(* The options have the values the job is named by.                        *)
OptionsBindTheJob ==
    /\ DOMAIN opts = {"env", "nonInteractive", "dryRun", "strict", "vars"}
    /\ stage \in {"invoked", "plan", "usage", "dispatch"} => job = 0
    /\ job # 0 =>
          \A v \in DOMAIN plan[job].vars :
             v \in DOMAIN opts.vars /\ opts.vars[v] = plan[job].vars[v]

PrepInv ==
    inv \in Invocations /\ TreeInWork /\ DangerSoFar /\ EndedFor /\ OptionsBindTheJob

(* The empty string is not in the provers' reach: what an action says of   *)
(* the options and the statuses that are not empty.                        *)
LEMMA OptionsLoaded ==
    ASSUME LoadOptions
    PROVE  \E e, n, r, t, v :
              opts' = [env |-> e, nonInteractive |-> n, dryRun |-> r, strict |-> t, vars |-> v]
BY Zenon DEF LoadOptions

LEMMA PreparationStarts == Init => PrepInv
<1>. SUFFICES ASSUME Init  PROVE PrepInv
  OBVIOUS
<1>1. /\ inv \in Invocations /\ stage = "invoked" /\ tree = inv.tree
      /\ issues = {} /\ stdin = inv.stdin /\ record = FALSE /\ job = 0
  BY Zenon DEF Init
<1>2. \E e : opts = [env |-> e, nonInteractive |-> FALSE, dryRun |-> FALSE,
                     strict |-> FALSE, vars |-> <<>>]
  BY Zenon DEF Init, NoOptions
<1>3. TreeInWork
  BY <1>1 DEF TreeInWork, Untouched, Prepared
<1>4. DangerSoFar
  BY <1>1 DEF DangerSoFar, Untouched, Prepared
<1>5. EndedFor
  BY <1>1 DEF EndedFor
<1>6. OptionsBindTheJob
  BY <1>1, <1>2 DEF OptionsBindTheJob
<1>. QED  BY <1>1, <1>3, <1>4, <1>5, <1>6 DEF PrepInv

(* Up to the validator only the options and the plan change.               *)
Opening ==
    /\ inv' = inv /\ tree' = tree /\ issues' = issues /\ stdin' = stdin /\ record' = record
    /\ stage \in Untouched /\ stage' \in Untouched

LEMMA OpeningKeeps ==
    ASSUME PrepInv, Opening, OptionsBindTheJob'
    PROVE  PrepInv'
<1>1. TreeInWork'
  BY DEF PrepInv, Opening, TreeInWork, Untouched, Prepared
<1>2. DangerSoFar'
  BY DEF PrepInv, Opening, DangerSoFar, Untouched, Prepared
<1>3. EndedFor'
  BY DEF PrepInv, Opening, EndedFor, Untouched
<1>. QED  BY <1>1, <1>2, <1>3 DEF PrepInv, Opening

LEMMA LoadOptionsKeeps == ASSUME PrepInv, LoadOptions PROVE PrepInv'
<1>1. /\ stage = "invoked" /\ (stage' = "plan" \/ stage' = "parse")
      /\ inv' = inv /\ plan' = plan /\ job' = job /\ tree' = tree /\ issues' = issues
      /\ stdin' = stdin /\ record' = record
  BY Zenon DEF LoadOptions
<1>2. DOMAIN opts' = {"env", "nonInteractive", "dryRun", "strict", "vars"}
  BY OptionsLoaded
<1>3. OptionsBindTheJob'
  BY <1>1, <1>2 DEF PrepInv, OptionsBindTheJob
<1>4. Opening
  BY <1>1 DEF Opening, Untouched
<1>. QED  BY <1>3, <1>4, OpeningKeeps

LEMMA RefusePlanKeeps == ASSUME PrepInv, RefusePlan PROVE PrepInv'
<1>1. OptionsBindTheJob'
  BY DEF RefusePlan, PrepInv, OptionsBindTheJob
<1>2. Opening
  BY DEF RefusePlan, Opening, Untouched
<1>. QED  BY <1>1, <1>2, OpeningKeeps

LEMMA PlanJobsKeeps == ASSUME PrepInv, PlanJobs PROVE PrepInv'
<1>1. OptionsBindTheJob'
  BY DEF PlanJobs, PrepInv, OptionsBindTheJob
<1>2. Opening
  BY DEF PlanJobs, Opening, Untouched
<1>. QED  BY <1>1, <1>2, OpeningKeeps

LEMMA DispatchJobKeeps == ASSUME PrepInv, DispatchJob PROVE PrepInv'
<1>1. PICK j \in DOMAIN plan : job' = j /\ opts' = [opts EXCEPT !.vars = Over(plan[j].vars, @)]
  BY DEF DispatchJob
<1>2. /\ DOMAIN opts' = {"env", "nonInteractive", "dryRun", "strict", "vars"}
      /\ opts'.vars = Over(plan[j].vars, opts.vars)
  BY <1>1 DEF PrepInv, OptionsBindTheJob
<1>3. \A v \in DOMAIN plan[j].vars : v \in DOMAIN opts'.vars /\ opts'.vars[v] = plan[j].vars[v]
  BY <1>2 DEF Over
<1>4. OptionsBindTheJob'
  BY <1>1, <1>2, <1>3 DEF DispatchJob, OptionsBindTheJob
<1>5. Opening
  BY DEF DispatchJob, Opening, Untouched
<1>. QED  BY <1>4, <1>5, OpeningKeeps

LEMMA ParseFileKeeps == ASSUME PrepInv, ParseFile PROVE PrepInv'
<1>1. OptionsBindTheJob'
  BY DEF ParseFile, Fail, PrepInv, OptionsBindTheJob
<1>2. CASE inv.parses
  <2>1. Opening
    BY <1>2 DEF ParseFile, Opening, Untouched
  <2>. QED  BY <1>1, <2>1, OpeningKeeps
<1>3. CASE ~inv.parses
  <2>1. /\ stage = "parse" /\ stage' = "failed" /\ issues = {} /\ record' = record
        /\ inv' = inv /\ tree' = tree /\ issues' = issues /\ stdin' = stdin /\ opts' = opts
    BY <1>3 DEF ParseFile, Fail, PrepInv, TreeInWork, Untouched
  <2>. QED  BY <1>1, <2>1 DEF PrepInv, TreeInWork, DangerSoFar, EndedFor, Untouched, Prepared
<1>. QED  BY <1>2, <1>3

LEMMA ValidateTreeKeeps == ASSUME PrepInv, ValidateTree PROVE PrepInv'
<1>1. OptionsBindTheJob'
  BY DEF ValidateTree, Fail, PrepInv, OptionsBindTheJob
<1>2. /\ stage = "validate" /\ record' = record
      /\ inv' = inv /\ tree' = tree /\ stdin' = stdin /\ opts' = opts
      /\ tree = inv.tree /\ inv.tree \in Documents
  BY InvocationsAssumption DEF ValidateTree, PrepInv, TreeInWork, Untouched
<1>3. CASE HasErrors(issues')
  <2>1. stage' = "failed"
    BY <1>3 DEF ValidateTree, Fail
  <2>. QED  BY <1>1, <1>2, <1>3, <2>1
            DEF PrepInv, TreeInWork, DangerSoFar, EndedFor, Untouched, Prepared
<1>4. CASE ~HasErrors(issues')
  <2>1. PICK order : issues' = Validate(tree, inv.command = "validate" /\ inv.securityStrict, order)
    BY DEF ValidateTree
  <2>2. Sound(inv.tree)
    BY <1>2, <1>4, <2>1, ValidMeansSound
  <2>3. stage' = "valid" \/ stage' = "resolve"
    BY <1>4 DEF ValidateTree
  <2>. QED  BY <1>1, <1>2, <1>4, <2>2, <2>3
            DEF PrepInv, TreeInWork, DangerSoFar, EndedFor, Untouched, Prepared
<1>. QED  BY <1>3, <1>4

LEMMA ResolveTreeKeeps == ASSUME PrepInv, ResolveTree PROVE PrepInv'
<1>1. OptionsBindTheJob'
  BY DEF ResolveTree, Fail, PrepInv, OptionsBindTheJob
<1>2. /\ stage = "resolve" /\ record' = record /\ issues' = issues
      /\ inv' = inv /\ stdin' = stdin /\ opts' = opts
      /\ tree = inv.tree /\ Sound(inv.tree) /\ stdin = inv.stdin
  BY DEF ResolveTree, PrepInv, TreeInWork, DangerSoFar
<1>3. CASE inv.dotenv.state = "unreadable"
  <2>1. stage' = "failed" /\ status' = "internal_error"
    BY <1>3 DEF ResolveTree, Fail
  <2>. QED  BY <1>1, <1>2, <1>3, <2>1
            DEF PrepInv, TreeInWork, DangerSoFar, EndedFor, Untouched, Prepared
<1>4. CASE inv.dotenv.state # "unreadable"
  <2>. DEFINE bound == UnresolvedBlocks(inv.tree, Sources) = {}
  <2>1. tree' = ResolvedTree(inv.tree, Sources) /\ Sources' = Sources /\ bound' = bound
    BY <1>2, <1>4 DEF ResolveTree, Sources
  <2>2. CASE ~bound
    <3>1. stage' = "failed" /\ status' = "internal_error"
      BY <1>2, <1>4, <2>2 DEF ResolveTree, Fail
    <3>. QED  BY <1>1, <1>2, <1>4, <2>1, <2>2, <3>1
              DEF PrepInv, TreeInWork, DangerSoFar, EndedFor, Untouched, Prepared
  <2>3. CASE bound /\ MetacharWarnings(tree') # {} /\ opts.strict
    <3>1. stage' = "failed" /\ status' = "validation_error"
      BY <1>2, <1>4, <2>3 DEF ResolveTree, Fail
    <3>. QED  BY <1>1, <1>2, <1>4, <2>1, <2>3, <3>1
              DEF PrepInv, TreeInWork, DangerSoFar, EndedFor, Untouched, Prepared
  <2>4. CASE /\ bound /\ MetacharWarnings(tree') # {}
             /\ ~opts.strict /\ ~opts.dryRun /\ ~opts.nonInteractive
    <3>1. stage' = "ask"
      BY <1>2, <1>4, <2>4 DEF ResolveTree, Fail
    <3>. QED  BY <1>1, <1>2, <1>4, <2>1, <2>4, <3>1
              DEF PrepInv, TreeInWork, DangerSoFar, EndedFor, Untouched, Prepared
  <2>5. CASE /\ bound
             /\ MetacharWarnings(tree') # {} =>
                   ~opts.strict /\ (opts.dryRun \/ opts.nonInteractive)
    <3>1. stage' = "resolved"
      BY <1>2, <1>4, <2>5 DEF ResolveTree, Fail
    <3>. QED  BY <1>1, <1>2, <1>4, <2>1, <2>5, <3>1
              DEF PrepInv, TreeInWork, DangerSoFar, EndedFor, Untouched, Prepared
  <2>. QED  BY <2>2, <2>3, <2>4, <2>5
<1>. QED  BY <1>3, <1>4

LEMMA AskConsentKeeps == ASSUME PrepInv, AskConsent PROVE PrepInv'
<1>1. OptionsBindTheJob'
  BY DEF AskConsent, Fail, PrepInv, OptionsBindTheJob
<1>2. /\ stage = "ask" /\ record' = record /\ issues' = issues
      /\ inv' = inv /\ tree' = tree /\ opts' = opts /\ Sources' = Sources
      /\ stdin = inv.stdin /\ ~opts.strict /\ ~opts.dryRun
  BY DEF AskConsent, PrepInv, DangerSoFar, Sources
<1>3. CASE Consents(stdin)
  <2>1. stage' = "resolved"
    BY <1>3 DEF AskConsent
  <2>. QED  BY <1>1, <1>2, <1>3, <2>1
            DEF PrepInv, TreeInWork, DangerSoFar, EndedFor, Untouched, Prepared
<1>4. CASE ~Consents(stdin)
  <2>1. stage' = "failed" /\ status' = "validation_error"
    BY <1>4 DEF AskConsent, Fail
  <2>. QED  BY <1>1, <1>2, <2>1
            DEF PrepInv, TreeInWork, DangerSoFar, EndedFor, Untouched, Prepared
<1>. QED  BY <1>3, <1>4

LEMMA EndingKeeps == ASSUME PrepInv, PrintPlan \/ StartRun PROVE PrepInv'
<1>1. OptionsBindTheJob'
  BY DEF PrintPlan, StartRun, PrepInv, OptionsBindTheJob
<1>2. /\ stage = "resolved" /\ issues' = issues /\ stdin' = stdin
      /\ inv' = inv /\ tree' = tree /\ opts' = opts /\ Sources' = Sources
  BY DEF PrintPlan, StartRun, Sources
<1>3. CASE PrintPlan
  <2>1. stage' = "printed" /\ record' = record /\ opts.dryRun
    BY <1>3 DEF PrintPlan
  <2>. QED  BY <1>1, <1>2, <2>1
            DEF PrepInv, TreeInWork, DangerSoFar, EndedFor, Untouched, Prepared
<1>4. CASE StartRun
  <2>1. stage' = "started" /\ record' = TRUE /\ ~opts.dryRun
    BY <1>4 DEF StartRun
  <2>. QED  BY <1>1, <1>2, <2>1
            DEF PrepInv, TreeInWork, DangerSoFar, EndedFor, Untouched, Prepared
<1>. QED  BY <1>3, <1>4

LEMMA PreparationStepKeeps == PrepInv /\ [Next]_prepVars => PrepInv'
<1>. SUFFICES ASSUME PrepInv, [Next]_prepVars  PROVE PrepInv'
  OBVIOUS
<1>1. CASE LoadOptions
  BY <1>1, LoadOptionsKeeps
<1>2. CASE RefusePlan
  BY <1>2, RefusePlanKeeps
<1>3. CASE PlanJobs
  BY <1>3, PlanJobsKeeps
<1>4. CASE DispatchJob
  BY <1>4, DispatchJobKeeps
<1>5. CASE ParseFile
  BY <1>5, ParseFileKeeps
<1>6. CASE ValidateTree
  BY <1>6, ValidateTreeKeeps
<1>7. CASE ResolveTree
  BY <1>7, ResolveTreeKeeps
<1>8. CASE AskConsent
  BY <1>8, AskConsentKeeps
<1>9. CASE PrintPlan \/ StartRun
  BY <1>9, EndingKeeps
<1>10. CASE UNCHANGED prepVars
  BY <1>10 DEF prepVars, Sources, PrepInv, TreeInWork, DangerSoFar, EndedFor, OptionsBindTheJob
<1>. QED  BY <1>1, <1>2, <1>3, <1>4, <1>5, <1>6, <1>7, <1>8, <1>9, <1>10 DEF Next

-----------------------------------------------------------------------------
(* At every stage between the command line and the run's record: which     *)
(* tree is in work and what is known of it, who has answered for dangerous *)
(* values and from which input, and which values the options bind          *)
(* (executor.Run up to the first step, internal/cli and bulk before it).   *)
THEOREM PreparationInvariant == Spec => []PrepInv
<1>. QED  BY PreparationStarts, PreparationStepKeeps, PTL DEF Spec

(* A tree that reaches the executor is one it can run, whatever the file   *)
(* and the filter: the rules that the validator applied before blocks were *)
(* filtered out and values put in still hold after it, but for what the    *)
(* values are themselves: one that holds a {{name}} leaves it in the       *)
(* command, and blank ones leave a command of references empty.            *)
THEOREM RunnableWhenReady == Spec => []ReadyMeansRunnable
<1>1. ASSUME PrepInv  PROVE ReadyMeansRunnable
  <2>1. SUFFICES ASSUME stage \in {"started", "printed"}  PROVE Runnable(tree)
    BY DEF ReadyMeansRunnable, Runnable, FlawedOnlyByValues
  <2>2. /\ inv.tree \in Documents /\ Sound(inv.tree)
        /\ UnresolvedBlocks(inv.tree, Sources) = {} /\ tree = ResolvedTree(inv.tree, Sources)
    BY <1>1, <2>1, InvocationsAssumption DEF PrepInv, TreeInWork, Prepared
  <2>3. /\ tree = Substituted(Filtered(inv.tree, Sources), Context(Sources))
        /\ Unresolved(Filtered(inv.tree, Sources), Context(Sources)) = {}
    BY <2>2, Zenon DEF ResolvedTree, UnresolvedBlocks
  <2>. QED  BY <2>2, <2>3, SoundMeansRunnable
<1>. QED  BY <1>1, PreparationInvariant, PTL

(* Nothing that carries a dangerous value is run unless somebody answered  *)
(* for it, whatever was asked for and whatever lines of input there are.   *)
THEOREM DangerIsAnswered == Spec => []DangerIsAnsweredFor
<1>1. ASSUME PrepInv  PROVE DangerIsAnsweredFor
  <2>1. inv.stdin \in Seq(STRING)
    BY <1>1, InvocationsAssumption DEF PrepInv
  <2>2. Consents(inv.stdin) => inv.stdin # <<>> /\ inv.stdin[1] = "y"
    BY <2>1 DEF Consents
  <2>3. stage = "started" /\ MetacharWarnings(tree) # {} =>
          /\ ~opts.strict
          /\ opts.nonInteractive \/ (inv.stdin # <<>> /\ inv.stdin[1] = "y")
    BY <1>1, <2>2 DEF PrepInv, DangerSoFar, Prepared
  <2>4. stage = "printed" => stdin = inv.stdin
    BY <1>1 DEF PrepInv, DangerSoFar, Prepared
  <2>. QED  BY <1>1, <2>3, <2>4 DEF DangerIsAnsweredFor, PrepInv, EndedFor
<1>. QED  BY <1>1, PreparationInvariant, PTL

(* Wherever a command uses a variable that its job binds, the command has  *)
(* the job's value, for every matrix and all the other sources of values.  *)
THEOREM BindingsReach == Spec => []BindingReachesTheCommands
<1>1. ASSUME PrepInv  PROVE BindingReachesTheCommands
  <2>. DEFINE c == Context(Sources)
              f == Filtered(inv.tree, Sources)
  <2>1. SUFFICES ASSUME stage \in {"started", "printed"}, job # 0,
                        NEW k \in DOMAIN Blocks(tree),
                        NEW v \in DOMAIN Blocks(tree)[k].values \cap DOMAIN plan[job].vars
                 PROVE  Blocks(tree)[k].values[v] = plan[job].vars[v]
    BY DEF BindingReachesTheCommands
  <2>2. inv.tree \in Documents /\ tree = ResolvedTree(inv.tree, Sources)
    BY <1>1, <2>1, InvocationsAssumption DEF PrepInv, TreeInWork, Prepared
  <2>3. tree = Substituted(f, c)
    BY <2>2, Zenon DEF ResolvedTree
  <2>4. f \in Documents
    BY <2>2, FilteredFacts DEF SomeStepsOf
  <2>5. v \in DOMAIN opts.vars /\ opts.vars[v] = plan[job].vars[v]
    BY <1>1, <2>1 DEF PrepInv, OptionsBindTheJob
  <2>6. PICK lower : c = Over(Sources.cli, lower)
    BY Zenon DEF Context
  <2>7. Sources.cli = opts.vars
    BY DEF Sources
  <2>8. v \in DOMAIN c => c[v] = opts.vars[v]
    BY <2>5, <2>6, <2>7 DEF Over
  <2>. HIDE DEF c, f
  <2>9. PICK bs \in {f.checks, f.steps, f.rollbacks, f.waits} :
               \E i \in DOMAIN bs : Blocks(tree)[k] = SubstituteVars(bs[i], c)
    BY <2>3, <2>4, SubstitutedFacts DEF FilledDocument
  <2>10. PICK i \in DOMAIN bs : Blocks(tree)[k] = SubstituteVars(bs[i], c)
    BY <2>9
  <2>11. bs[i] \in AnyBlocks
    BY <2>4, <2>9, <2>10, DocumentFacts
  <2>12. FilledIn(Blocks(tree)[k], bs[i], c)
    BY <2>10, <2>11, SubstitutedBlock
  <2>. QED  BY <2>5, <2>8, <2>12 DEF FilledIn
<1>. QED  BY <1>1, PreparationInvariant, PTL
=============================================================================
