---------------------------- MODULE RunbookParser ----------------------------
(***************************************************************************)
(* internal/parser: a .runbook text becomes the tree every later stage     *)
(* works on.  Parse is one pass over the lines, so the text grows a line   *)
(* at a time here: the frontmatter is looked for at the top, a line that   *)
(* opens a typed block starts one, and only a bare fence ends it.          *)
(*                                                                         *)
(* A line is a record; what the code does not look at is left out:         *)
(*   blank    nothing but a line end                                       *)
(*   dashes   exactly "---"                                                *)
(*   rule     "---" followed by more ("----", or "---\r" in a CRLF file)   *)
(*   fence    "```" once trimmed                                           *)
(*   open     a typed opening with its block type and name attribute       *)
(*   pair     "key: value"                                                 *)
(*   text     anything else, "```bash" included                            *)
(* Parts of a node are sets of line numbers of the text they come from.    *)
(*                                                                         *)
(* Definitions marked "faulty" are variants with a bug, each defined just  *)
(* before the definition it distorts; no specification uses them.          *)
(***************************************************************************)
EXTENDS Naturals, Sequences, FiniteSets, FiniteSetsExt

CONSTANTS Lines,       \* the lines a text is made of
          NoName,      \* an opening without a name attribute, or an empty one
          MaxLines,    \* bound: lines of a text
          MaxBlocks    \* maxBlocks

ASSUME BlocksAssumption == MaxBlocks \in Nat \ {0}

VARIABLES text,    \* the lines read
          mode,    \* what the parser is in, or the verdict
          opened,  \* the line that opened the frontmatter or the block
          from,    \* the line the body starts at
          nodes,    \* the nodes built, in document order
          refused  \* why the text is refused, "" while it is not

parserVars == <<text, mode, opened, from, nodes, refused>>

BlockTypes == {"check", "step", "rollback", "wait"}

ASSUME LinesAssumption ==
    \A line \in Lines : line.kind = "open" => line.type \in BlockTypes

\* The fields of ast.Metadata: KnownFields(true) refuses any other key.
FrontmatterFields == {"name", "version", "description", "owners",
                      "environments", "requires", "timeout", "trigger",
                      "severity", "max_parallel"}

\* The keys a header may set, by block type.
HeaderKeys(type) ==
    CASE type = "step" -> {"timeout", "kill_grace", "confirm", "env"}
      [] type = "wait" -> {"duration", "abort_if"}
      [] OTHER -> {}

ParserInit ==
    /\ text = <<>>
    /\ mode = "lead"
    /\ opened = 0
    /\ from = 1
    /\ nodes = <<>>
    /\ refused = ""

Here == Len(text) + 1

Delimits(line) == line.kind \in {"dashes", "rule"}

\* faulty: the opening of another block ends the one before it as well
ClosesAtOpening(line) == line.kind \in {"fence", "open"}

\* Only a line that is a bare fence ends a block.
Closes(line) == line.kind = "fence"

-----------------------------------------------------------------------------
(* Frontmatter.                                                            *)

\* What the YAML decoder makes of the lines in f: nothing at all is fine,
\* blank lines alone are an end of input (an error), and otherwise every
\* line gives one known field, each once.
Decodes(f) ==
    LET pairs == {k \in f : text[k].kind = "pair"}
    IN  \/ f = {}
        \/ Cardinality(f) = 1 /\ \A k \in f : text[k].kind = "blank"
        \/ /\ pairs # {}
           /\ \A k \in f \ pairs : text[k].kind = "blank"
           /\ \A k \in pairs : text[k].key \in FrontmatterFields
           /\ \A k, l \in pairs : text[k].key = text[l].key => k = l

Refuse(why) ==
    /\ mode' = "refused"
    /\ refused' = why

\* Only line ends may come before the opening delimiter.
SkipLead(line) ==
    /\ mode = "lead" /\ line.kind = "blank"
    /\ UNCHANGED <<mode, opened, from, nodes, refused>>

OpenFrontmatter(line) ==
    /\ mode = "lead" /\ Delimits(line)
    /\ mode' = "front"
    /\ opened' = Here
    /\ UNCHANGED <<from, nodes, refused>>

\* Any line that begins with the delimiter closes it.  What more it holds, which
\* the code keeps as the first line of the body, is left out.
ReadFrontmatter(line) ==
    /\ mode = "front"
    /\ \/ /\ ~Delimits(line)
          /\ UNCHANGED <<mode, opened, from, refused>>
       \/ /\ Delimits(line) /\ ~Decodes(opened + 1 .. Len(text))
          /\ Refuse("yaml")
          /\ UNCHANGED <<opened, from>>
       \/ /\ Delimits(line) /\ Decodes(opened + 1 .. Len(text))
          /\ mode' = "body"
          /\ opened' = 0
          /\ from' = Here + 1
          /\ UNCHANGED refused
    /\ UNCHANGED nodes

-----------------------------------------------------------------------------
(* Blocks.                                                                 *)

\* Prose, and the untyped fences in it, are passed over.
SkipProse(line) ==
    /\ \/ mode = "body" /\ line.kind # "open"
       \/ mode = "lead" /\ line.kind \notin {"open", "blank"} /\ ~Delimits(line)
    /\ mode' = "body"
    /\ UNCHANGED <<opened, from, nodes, refused>>

\* The limit is on openings, before the block is read.
OpenBlock(line) ==
    /\ mode \in {"lead", "body"} /\ line.kind = "open"
    /\ IF Len(nodes) >= MaxBlocks
       THEN Refuse("blocks") /\ UNCHANGED opened
       ELSE mode' = "block" /\ opened' = Here /\ UNCHANGED refused
    /\ UNCHANGED <<from, nodes>>

\* Everything but a bare fence belongs to the block, openings included.
ReadBlock(line) ==
    /\ mode = "block" /\ ~Closes(line)
    /\ UNCHANGED <<mode, opened, from, nodes, refused>>

\* faulty: cuts at the last "---" instead of the first
LastSeparator(i, j) ==
    LET bars == {k \in i + 2 .. j - 1 : text[k].kind = "dashes"}
    IN  IF bars = {} THEN i ELSE Max(bars)

\* The line that parts header and command: a "---" which is not the first
\* line of the block.  Without one there is no header.
Separator(i, j) ==
    LET bars == {k \in i + 2 .. j - 1 : text[k].kind = "dashes"}
    IN  IF bars = {} THEN i ELSE Min(bars)

\* TrimSpace: the lines of s from its first to its last non-blank one.
Trimmed(s) ==
    LET solid == {k \in s : text[k].kind # "blank"}
    IN  {k \in s : \E a, b \in solid : a <= k /\ k <= b}

\* The header line that gives a step its value: the last one of its key
\* wins; 0 when there is none.
StepField(header, key) ==
    LET given == {k \in header : text[k].kind = "pair" /\ text[k].key = key}
    IN  IF given = {} THEN 0 ELSE Max(given)

\* A wait's duration is the opening's attribute or else the first header
\* line that gives one; its other key is last-wins like a step's.
WaitField(i, header, key) ==
    LET given == {k \in header : text[k].kind = "pair" /\ text[k].key = key}
    IN  CASE key = "duration" /\ text[i].inline -> i
          [] key = "duration" /\ given # {} -> Min(given)
          [] OTHER -> StepField(header, key)

BuildNode(i, j) ==
    LET sep    == Separator(i, j)
        header == i + 1 .. sep - 1
        type   == text[i].type
    IN  [type    |-> type,
         name    |-> text[i].name,
         at      |-> i,
         end     |-> j,
         command |-> Trimmed(sep + 1 .. j - 1),
         fields  |-> [key \in HeaderKeys(type) |->
                        IF type = "wait" THEN WaitField(i, header, key)
                                         ELSE StepField(header, key)]]

IsDuplicate(line) ==
    /\ line.type = "step"
    /\ \E k \in DOMAIN nodes : nodes[k].type = "step" /\ nodes[k].name = line.name

\* A bare fence ends the block: the node is built, or the text is refused
\* for it.
CloseBlock(line) ==
    /\ mode = "block" /\ Closes(line)
    /\ CASE text[opened].name = NoName ->
                Refuse("name") /\ UNCHANGED nodes
         [] text[opened].name # NoName /\ IsDuplicate(text[opened]) ->
                Refuse("duplicate") /\ UNCHANGED nodes
         [] OTHER ->
                /\ mode' = "body"
                /\ nodes' = Append(nodes, BuildNode(opened, Here))
                /\ UNCHANGED refused
    /\ opened' = 0
    /\ UNCHANGED from

ReadLine(line) ==
    /\ Len(text) < MaxLines
    /\ text' = Append(text, line)
    /\ \/ SkipLead(line) \/ OpenFrontmatter(line) \/ ReadFrontmatter(line)
       \/ SkipProse(line) \/ OpenBlock(line)
       \/ ReadBlock(line) \/ CloseBlock(line)

\* The end of the text.  A delimiter that is its last line, with no line end
\* after it, opens no frontmatter.
EndOfText ==
    /\ text # <<>>
    /\ \/ mode = "front" /\ opened < Len(text) /\ Refuse("frontmatter")
       \/ mode = "block" /\ Refuse("unclosed")
       \/ /\ \/ mode \in {"lead", "body"}
             \/ mode = "front" /\ opened = Len(text)
          /\ mode' = "accepted"
          /\ UNCHANGED refused
    /\ UNCHANGED <<text, opened, from, nodes>>

ParserNext == EndOfText \/ \E line \in Lines : ReadLine(line)

ParserSpec == ParserInit /\ [][ParserNext]_parserVars

-----------------------------------------------------------------------------
(* What the later stages rely on.                                          *)

Inside(n) == n.at + 1 .. n.end - 1

\* The blocks of an accepted text are exactly the spans a reader would mark:
\* each from an opening of the body to the first bare fence after it, none
\* overlapping, in document order, and no opening of the body is outside all
\* of them (extractBlocks).  An opening that is swallowed by a block whose
\* fence is missing is a line of that block, never a block of its own.
BlocksAreTheirSpans ==
    mode = "accepted" =>
        /\ \A k \in DOMAIN nodes :
              /\ nodes[k].at >= from
              /\ text[nodes[k].at].kind = "open"
              /\ text[nodes[k].end].kind = "fence"
              /\ \A l \in Inside(nodes[k]) : text[l].kind # "fence"
              /\ \A l \in DOMAIN nodes : l > k => nodes[l].at > nodes[k].end
        /\ \A i \in from .. Len(text) :
              text[i].kind = "open" =>
                \E k \in DOMAIN nodes : i \in nodes[k].at .. nodes[k].end

\* What is lost of a block is its header: every other line reaches the
\* shell.  A line that is in no command has, after it in the block, a "---"
\* of its own line that is not the first one, or is blank at an edge; and no
\* value of a field comes from a line the shell also runs (splitBlockContent,
\* applyStepMeta, applyWaitMeta).
CommandsLoseOnlyTheHeader ==
    \A k \in DOMAIN nodes :
        LET n == nodes[k]
            cut == {l \in n.at + 2 .. n.end - 1 : text[l].kind = "dashes"}
        IN  /\ \A l \in Inside(n) \ n.command :
                  \/ text[l].kind = "blank"
                  \/ \E c \in cut : l <= c /\ \A d \in cut : c <= d
            /\ \A key \in DOMAIN n.fields : n.fields[key] \notin n.command
            /\ n.command # {} =>
                  \A c \in cut : \E d \in cut : d <= c /\ d < Min(n.command)
=============================================================================
