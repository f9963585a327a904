---------------------------- MODULE Instructions ----------------------------
(***************************************************************************)
(* The instructions an agent is built with, and what is left out when they *)
(* are too long (agent/src/context and projectDocument of chat.ts).        *)
(*                                                                         *)
(* A text is a sequence of pieces [src, len]: what a file contributed, or  *)
(* a separator.  Lengths are in units in which a paragraph break is 1 and  *)
(* the separator of two rules, a ruler between two breaks, is 3.           *)
(*                                                                         *)
(* `docs` is what the disk holds: [base, style, trusted, userAgents,       *)
(* userRules, chain, rules, surface], files by their length (0 : absent),  *)
(* rules and the chain of AGENTS.md as sequences of lengths; style is      *)
(* "none", "keep" (an output style that keeps the coding instructions) or  *)
(* "replace".                                                              *)
(***************************************************************************)
EXTENDS Naturals, SequencesExt

CONSTANTS
  MaxRules,       \* MAX_CHARS of rules.ts
  NoticeMax,      \* OMISSION_MAX
  MaxChain,       \* MAX_CHARS of agents-md.ts
  MaxAggregate    \* MAX_AGGREGATE

ASSUME BudgetsAssumption ==
  /\ {MaxRules, NoticeMax, MaxChain, MaxAggregate} \subseteq Nat \ {0}
  /\ NoticeMax < MaxRules

Documents ==
  [base : Nat, style : {"none", "keep", "replace"}, trusted : BOOLEAN, userAgents : Nat,
   userRules : Seq(Nat), chain : Seq(Nat), rules : Seq(Nat), surface : Nat]

Piece(src, len) == IF len = 0 THEN <<>> ELSE <<[src |-> src, len |-> len]>>
Gap == Piece("gap", 1)
Ruler == Piece("ruler", 3)

(* The sum of a sequence of lengths.                                       *)
Total(lengths) ==
  LET upTo[n \in 0..Len(lengths)] == IF n = 0 THEN 0 ELSE upTo[n - 1] + lengths[n]
  IN upTo[Len(lengths)]
Length(text) == Total([i \in DOMAIN text |-> text[i].len])
Holds(text, src) == \E i \in DOMAIN text : text[i].src = src

(* Join the texts that say something.                                      *)
JoinTwo(text, other, separator) ==
  IF text = <<>> THEN other ELSE IF other = <<>> THEN text ELSE text \o separator \o other

Joined(texts, separator) ==
  LET upTo[n \in 0..Len(texts)] ==
        IF n = 0 THEN <<>> ELSE JoinTwo(upTo[n - 1], texts[n], separator)
  IN upTo[Len(texts)]

(* slice(-n): the last n units, and everything when n is 0.                *)
Slice(text, n) ==
  LET after(i) == Length(SubSeq(text, i + 1, Len(text)))
      kept(i) == IF after(i) >= n THEN 0 ELSE IF after(i) + text[i].len <= n THEN text[i].len
                 ELSE n - after(i)
      cut == [i \in DOMAIN text |-> [text[i] EXCEPT !.len = kept(i)]]
  IN IF n = 0 THEN text ELSE SelectSeq(cut, LAMBDA piece : piece.len > 0)

Over(text, budget) == IF Length(text) > budget THEN Length(text) - budget ELSE 0
Less(n, m) == IF n > m THEN n - m ELSE 0

-----------------------------------------------------------------------------
(* The sources.                                                            *)

(* assemble: whole rules only, and a notice where some had to go.          *)
Blocks(src, lengths) == [i \in DOMAIN lengths |-> Piece(src, lengths[i])]

Assemble_Silent(blocks) ==
  LET full == Joined(blocks, Ruler)
      fits(k) == Length(Joined(SubSeq(blocks, 1, k), Ruler)) <= MaxRules - NoticeMax
      kept == CHOOSE k \in 0..Len(blocks) : fits(k) /\ \A j \in k + 1..Len(blocks) : ~fits(j)
  IN IF Length(full) <= MaxRules THEN full ELSE Joined(SubSeq(blocks, 1, kept), Ruler)

Assemble(blocks) ==
  LET full == Joined(blocks, Ruler)
      fits(k) == Length(Joined(SubSeq(blocks, 1, k), Ruler)) <= MaxRules - NoticeMax
      kept == CHOOSE k \in 0..Len(blocks) : fits(k) /\ \A j \in k + 1..Len(blocks) : ~fits(j)
  IN IF Length(full) <= MaxRules THEN full
     ELSE Joined(Append(SubSeq(blocks, 1, kept), Piece("notice", NoticeMax)), Ruler)

(* loadAgentsMd: the chain from the root of the repository, whose root-most *)
(* end goes first.                                                         *)
WholeChain(docs) == Joined(Blocks("chain", docs.chain), Gap)
AgentsMd(docs) ==
  IF Length(WholeChain(docs)) > MaxChain THEN Slice(WholeChain(docs), MaxChain)
  ELSE WholeChain(docs)

(* projectDocument: what is the operator's, and, where the directory is    *)
(* trusted, what is the project's.                                         *)
ProjectDocument(docs) ==
  LET user == Joined(<<Piece("userAgents", docs.userAgents),
                       Assemble(Blocks("userRule", docs.userRules))>>, Gap)
  IN IF ~docs.trusted THEN user
     ELSE Joined(<<user, AgentsMd(docs), Assemble(Blocks("rule", docs.rules))>>, Gap)

(* applyOutputStyle.                                                       *)
Base(docs) ==
  CASE docs.style = "none" -> Piece("base", docs.base)
    [] docs.style = "keep" -> Joined(<<Piece("base", docs.base), Piece("style", 1)>>, Gap)
    [] docs.style = "replace" -> Piece("style", 1)

-----------------------------------------------------------------------------
(* The aggregate budget.                                                   *)

(* splitProjectDoc: the document up to its first ruler, and the rest, to   *)
(* which the ruler's own line stays attached.                              *)
FirstRuler(doc) == CHOOSE i \in DOMAIN doc : /\ doc[i].src = "ruler"
                                             /\ \A j \in 1..i - 1 : doc[j].src # "ruler"
Split(doc) ==
  IF ~Holds(doc, "ruler") THEN [agentsMd |-> doc, rules |-> <<>>]
  ELSE [agentsMd |-> SubSeq(doc, 1, FirstRuler(doc) - 1),
        rules |-> Piece("line", 2) \o SubSeq(doc, FirstRuler(doc) + 1, Len(doc))]

(* trimBlocksFromStart: whole blocks, the first of them first.             *)
TrimBlocks(text, budget) ==
  LET starts == {1, Len(text) + 1} \union {i + 1 : i \in {j \in DOMAIN text : text[j].src = "ruler"}}
      from(i) == SubSeq(text, i, Len(text))
  IN from(Min({i \in starts : Length(from(i)) <= budget}))

(* withinBudget: the rules give way first, then what precedes them, from   *)
(* its start, then the surface's own; each to what is still over.          *)
Whole(c) == Joined(<<c.base, c.doc, c.surface>>, Gap)
Excess(c) == Over(Whole(c), MaxAggregate)

Cut(c, source, from, to, doc) ==
  [c EXCEPT !.doc = doc, !.cuts = IF from = to THEN @ ELSE @ \union {source}]

CutRulesTo(c, s, rules) == Cut(c, "rules", s.rules, rules, Joined(<<s.agentsMd, rules>>, Gap))
CutRulesOf(c, s) ==
  CutRulesTo(c, s, TrimBlocks(s.rules, Less(Length(s.rules), Excess(c))))
CutRules(c) == IF Excess(c) = 0 THEN c ELSE CutRulesOf(c, Split(c.doc))

CutAgentsMdTo(c, s, md) == Cut(c, "agentsMd", s.agentsMd, md, Joined(<<md, s.rules>>, Gap))
CutAgentsMdOf(c, s) ==
  CutAgentsMdTo(c, s, Slice(s.agentsMd, Less(Length(s.agentsMd), Excess(c))))
CutAgentsMd(c) == IF Excess(c) = 0 THEN c ELSE CutAgentsMdOf(c, Split(c.doc))

CutSurfaceTo(c, surface) ==
  [c EXCEPT !.surface = surface,
            !.cuts = IF surface = c.surface THEN @ ELSE @ \union {"surface"}]
CutSurface(c) ==
  IF Excess(c) = 0 \/ c.surface = <<>> THEN c
  ELSE CutSurfaceTo(c, Slice(c.surface, Less(Length(c.surface), Excess(c))))

Composed(c, docs) ==
  [text |-> Whole(c), cuts |-> c.cuts,
   warned |-> Excess(c) > 0 \/ (docs.trusted /\ Length(WholeChain(docs)) > MaxChain)]

Compose(docs) ==
  Composed(CutSurface(CutAgentsMd(CutRules(
             [base |-> Base(docs), doc |-> ProjectDocument(docs),
              surface |-> Piece("surface", docs.surface), cuts |-> {}]))), docs)

-----------------------------------------------------------------------------
(* What the disk asks for, in units of content, and what the instructions  *)
(* hold of it.                                                             *)
ContentOf(text) ==
  Total([i \in DOMAIN text |->
           IF text[i].src \in {"gap", "ruler", "line", "notice"} THEN 0 ELSE text[i].len])

Asked(docs) ==
  ContentOf(Base(docs)) + docs.userAgents + Total(docs.userRules) + docs.surface
    + (IF docs.trusted THEN Total(docs.chain) + Total(docs.rules) ELSE 0)
=============================================================================
