------------------------------- MODULE UiDsl -------------------------------
(***************************************************************************)
(* The line language of the workbench surface (common/uiDsl): statements   *)
(* split at line ends outside brackets and strings, values parsed by       *)
(* recursive descent, components checked against the catalog, batches      *)
(* merged by name, the tree resolved from root; and the autocloser and     *)
(* memo with which a text still arriving is parsed.                        *)
(*                                                                         *)
(* A text is a sequence of pieces: words, numbers, single signs, quotes    *)
(* and line ends.  Every word is a tuple of strings, a name or a literal.  *)
(* Blanks, escapes, line numbers and the wording of errors are left out.   *)
(***************************************************************************)
EXTENDS Integers, Sequences, SequencesExt, FiniteSets, TLC

Piece(k, v) == [k |-> k, v |-> v]
Word(x) == Piece("ident", <<x>>)
StateName(x) == Piece("state", <<x>>)
Sign(x) == Piece("punct", <<x>>)
Quote == Piece("quote", <<>>)
NewLine == Piece("nl", <<>>)

(***************************************************************************)
(* Statements                                                              *)
(***************************************************************************)

\* The pieces outside of strings, and those of them between two places that are one of some.
Outside(text) == {i \in 1..Len(text) : Cardinality({j \in 1..(i - 1) : text[j] = Quote}) % 2 = 0}
Between(text, outside, from, to, signs) == {i \in outside \cap from..to : text[i] \in signs}
Opening == {Sign("("), Sign("[")}
Closing == {Sign(")"), Sign("]")}

Blank(text) == \A i \in 1..Len(text) : text[i] = NewLine
NonBlank(text) == IF Blank(text) THEN <<>> ELSE <<text>>

\* splitStatements: the end of a line ends the statement unless a bracket or a string is open.
RECURSIVE SplitFrom(_, _, _)
Complete(text, outside, from, to) ==
  Cardinality(Between(text, outside, from, to, Opening))
    <= Cardinality(Between(text, outside, from, to, Closing))
Ends(text, outside, from) ==
  {i \in Between(text, outside, from, Len(text), {NewLine}) : Complete(text, outside, from, i)}
SplitAt(text, outside, from, ends) ==
  IF ends = {} THEN NonBlank(SubSeq(text, from, Len(text)))
  ELSE NonBlank(SubSeq(text, from, Min(ends) - 1)) \o SplitFrom(text, outside, Min(ends) + 1)
SplitFrom(text, outside, from) == SplitAt(text, outside, from, Ends(text, outside, from))
SplitStatements(source) == SplitFrom(source, Outside(source), 1)

\* tokenize: a string is one token; a line end is a blank.
TokenStep(at, p) ==
  CASE p.k = "quote" /\ at.open ->
         [at EXCEPT !.open = FALSE, !.toks = Append(@, Piece("string", at.str))]
    [] p.k = "quote" -> [at EXCEPT !.open = TRUE, !.str = <<>>]
    [] at.open -> [at EXCEPT !.str = @ \o p.v]
    [] p = NewLine -> at
    [] OTHER -> [at EXCEPT !.toks = Append(@, p)]

Finished(at) == [ok |-> ~at.open /\ \A i \in 1..Len(at.toks) : at.toks[i].k # "bad",
                 toks |-> at.toks]
Tokenize(text) ==
  Finished(FoldLeft(TokenStep, [toks |-> <<>>, str |-> <<>>, open |-> FALSE], text))

(***************************************************************************)
(* Values                                                                  *)
(***************************************************************************)

Value(kind, name, args) == [kind |-> kind, name |-> name, args |-> args]
Literals == {"string", "number", "other"}
Parsed(value, rest) == [ok |-> TRUE, value |-> value, rest |-> rest]
Unparsed == [ok |-> FALSE, value |-> <<>>, rest |-> <<>>]
Wrap(kind, name, list) ==
  IF list.ok THEN Parsed(Value(kind, name, list.value), list.rest) ELSE Unparsed

StartsWith(toks, x) == toks # <<>> /\ Head(toks) = Sign(x)

ActionSteps == {<<"Set">>, <<"Reset">>, <<"Run">>, <<"ToAssistant">>}

RECURSIVE ParseValue(_), ParseItems(_, _), ParseSteps(_)

\* A value and those after the next comma.
Prepend(value, list) == IF list.ok THEN Parsed(<<value>> \o list.value, list.rest) ELSE Unparsed

\* What follows an opening bracket: nothing, or values between commas.
ParseList(toks, closer) ==
  IF StartsWith(toks, closer) THEN Parsed(<<>>, Tail(toks)) ELSE ParseItems(toks, closer)
AfterItem(item, closer) ==
  CASE item.ok /\ StartsWith(item.rest, closer) -> Parsed(<<item.value>>, Tail(item.rest))
    [] item.ok /\ StartsWith(item.rest, ",") ->
         Prepend(item.value, ParseItems(Tail(item.rest), closer))
    [] OTHER -> Unparsed
ParseItems(toks, closer) == AfterItem(ParseValue(toks), closer)
ParseArgs(toks) ==
  IF StartsWith(toks, "(") THEN ParseList(Tail(toks), ")") ELSE Parsed(<<>>, toks)

\* parseAction: Action([@Step(...), ...]) with steps the runtime knows.
AfterStep(step) ==
  CASE step.ok /\ StartsWith(step.rest, "]") -> Parsed(<<step.value>>, Tail(step.rest))
    [] step.ok /\ StartsWith(step.rest, ",") -> Prepend(step.value, ParseSteps(Tail(step.rest)))
    [] OTHER -> Unparsed
ParseSteps(toks) ==
  IF toks # <<>> /\ Head(toks).k = "step" /\ Head(toks).v \in ActionSteps
  THEN AfterStep(Wrap("step", Head(toks).v, ParseArgs(Tail(toks)))) ELSE Unparsed
Close(list) ==
  IF list.ok /\ StartsWith(list.rest, ")") THEN Parsed(list.value, Tail(list.rest)) ELSE Unparsed
ParseAction(toks) ==
  LET inner == SubSeq(toks, 3, Len(toks))
  IN  CASE ~StartsWith(toks, "(") \/ ~StartsWith(Tail(toks), "[") -> Unparsed
        [] StartsWith(inner, "]") -> Wrap("action", <<>>, Close(Parsed(<<>>, Tail(inner))))
        [] OTHER -> Wrap("action", <<>>, Close(ParseSteps(inner)))

ParseWord(t, rest) ==
  CASE t \in {Word("true"), Word("false"), Word("null")} -> Parsed(Value("other", t.v, <<>>), rest)
    [] t = Word("Action") -> ParseAction(rest)
    [] t # Word("Action") /\ StartsWith(rest, "(") -> Wrap("component", t.v, ParseArgs(rest))
    [] OTHER -> Parsed(Value("ref", t.v, <<>>), rest)
ParseFrom(t, rest) ==
  CASE t.k \in {"string", "number", "state"} -> Parsed(Value(t.k, t.v, <<>>), rest)
    [] t.k = "step" -> Wrap("cap", t.v, ParseArgs(rest))
    [] t = Sign("[") -> Wrap("array", <<>>, ParseList(rest, "]"))
    [] t.k = "ident" -> ParseWord(t, rest)
    [] OTHER -> Unparsed
ParseValue(toks) == IF toks = <<>> THEN Unparsed ELSE ParseFrom(Head(toks), Tail(toks))

(***************************************************************************)
(* The catalog                                                             *)
(***************************************************************************)

Arg(type) == [type |-> type, opt |-> FALSE]
Opt(type) == [type |-> type, opt |-> TRUE]
Catalog ==
  (<<"Stack">> :> <<Arg("components")>>)
  @@ (<<"Text">> :> <<Arg("string"), Opt("variant")>>)
  @@ (<<"Table">> :> <<Arg("strings"), Arg("cells"), Opt("caps")>>)
  @@ (<<"Code">> :> <<Arg("string"), Opt("string")>>)
  @@ (<<"TextField">> :> <<Arg("string"), Opt("binding")>>)
  @@ (<<"Select">> :> <<Arg("string"), Arg("strings"), Opt("binding")>>)
  @@ (<<"Button">> :> <<Arg("string"), Opt("action")>>)
  @@ (<<"field_mapping">> :>
        <<Arg("string"), Arg("strings"), Arg("string"), Arg("strings"), Opt("cells")>>)
CapSpecs ==
  (<<"Editable">> :> <<Arg("string"), Opt("string")>>)
  @@ (<<"Validate">> :> <<Arg("string"), Arg("string"), Arg("string")>>)

AllItems(v, kinds) ==
  v.kind = "array" /\ \A i \in 1..Len(v.args) : v.args[i].kind \in kinds

CheckArg(v, type) ==
  CASE type = "string" -> v.kind = "string"
    [] type = "variant" -> v.kind = "string" /\ v.name \in {<<"title">>, <<"body">>, <<"caption">>}
    [] type = "binding" -> v.kind = "state"
    [] type = "action" -> v.kind = "action"
    [] type = "components" -> AllItems(v, {"ref", "component"})
    [] type = "strings" -> AllItems(v, {"string"})
    [] type = "cells" ->
         AllItems(v, {"array"}) /\ \A i \in 1..Len(v.args) : AllItems(v.args[i], Literals)
    [] type = "caps" -> AllItems(v, {"cap"})

\* The positional arguments: as many as the signature takes, each of its type.
FitsSpec(args, spec) ==
  /\ Len(args) <= Len(spec)
  /\ \A i \in 1..Len(spec) : i > Len(args) => spec[i].opt
  /\ \A i \in 1..Len(args) : CheckArg(args[i], spec[i].type)

ValidateCap(cap) == cap.name \in DOMAIN CapSpecs /\ FitsSpec(cap.args, CapSpecs[cap.name])

RECURSIVE ValidateComponent(_)
ValidateComponent(v) ==
  /\ v.name \in DOMAIN Catalog
  /\ FitsSpec(v.args, Catalog[v.name])
  /\ \A i \in 1..Len(v.args) :
       v.args[i].kind = "array" =>
         \A k \in 1..Len(v.args[i].args) :
           LET item == v.args[i].args[k]
           IN  /\ Catalog[v.name][i].type = "caps" => ValidateCap(item)
               /\ item.kind = "component" => ValidateComponent(item)

(***************************************************************************)
(* Programs                                                                *)
(***************************************************************************)

\* parseRawStatement: a name and a valid value, or not ok.
Invalid == [ok |-> FALSE, name |-> <<>>, value |-> Value("none", <<>>, <<>>)]
Statement(head, parsed) ==
  IF ~parsed.ok \/ parsed.rest # <<>> THEN Invalid
  ELSE IF head.k = "state"
       THEN IF parsed.value.kind \in Literals
            THEN [ok |-> TRUE, name |-> <<"$">> \o head.v, value |-> parsed.value] ELSE Invalid
       ELSE IF parsed.value.kind = "component" => ValidateComponent(parsed.value)
            THEN [ok |-> TRUE, name |-> head.v, value |-> parsed.value] ELSE Invalid
ParseTokens(t) ==
  IF t.ok /\ Len(t.toks) >= 2 /\ Head(t.toks).k \in {"ident", "state"} /\ t.toks[2] = Sign("=")
  THEN Statement(Head(t.toks), ParseValue(SubSeq(t.toks, 3, Len(t.toks)))) ELSE Invalid
ParseRawStatement(text) == ParseTokens(Tokenize(text))

\* The last assignment of a name wins; a statement that is not ok drops.
MergeStatement(defs, parsed) ==
  IF parsed.ok THEN (parsed.name :> parsed.value) @@ defs ELSE defs
NoStatements == [x \in {} |-> x]
Outcomes(raw) == [i \in 1..Len(raw) |-> ParseRawStatement(raw[i])]
Merge(outcomes) == FoldLeft(MergeStatement, NoStatements, outcomes)
Statements(raw) == Merge(Outcomes(raw))

\* lintBatch: what a single batch is refused for.
AllValid(outcomes) == \A i \in 1..Len(outcomes) : outcomes[i].ok
LintClean(source) == AllValid(Outcomes(SplitStatements(source)))

\* collectRefs: the names of one kind anywhere in a value.
RECURSIVE Mentioned(_, _)
Mentioned(v, kind) ==
  (IF v.kind = kind THEN {v.name} ELSE {})
  \cup UNION {Mentioned(v.args[i], kind) : i \in 1..Len(v.args)}

\* resolveProgram: undefined names, undeclared states, no root; each against its statement.
ResolveErrors(defs, requireRoot) ==
  UNION {{<<"undefined", n, r>> : r \in Mentioned(defs[n], "ref") \ DOMAIN defs}
         \cup {<<"undeclared", n, v>> :
                 v \in {x \in Mentioned(defs[n], "state") : <<"$">> \o x \notin DOMAIN defs}}
         : n \in DOMAIN defs}
  \cup (IF requireRoot /\ <<"root">> \notin DOMAIN defs THEN {<<"noRoot">>} ELSE {})

\* parseProgram: one text from beginning to end; how many of its statements were refused.
Refused(outcomes) == Cardinality({i \in 1..Len(outcomes) : ~outcomes[i].ok})
Resolved(defs, outcomes) ==
  [defs |-> defs, refused |-> Refused(outcomes), errors |-> ResolveErrors(defs, TRUE)]
Program(outcomes) == Resolved(Merge(outcomes), outcomes)
ParseProgram(source) == Program(Outcomes(SplitStatements(source)))

(***************************************************************************)
(* The fold of the batches and its tree                                    *)
(***************************************************************************)

\* The names on the way from root to here.
Visiting(name, visiting) == visiting \cup {name}

\* resolveValue: refs become nodes; a hole where a name has no component, a loop (a hole too,
\* but reported) where the name is one of those on the way.  A node is named, an inline one not.
RECURSIVE ResolveValue(_, _, _)
ResolveNode(name, v, defs, visiting) ==
  Value("node", name, <<Value(v.name[1], <<>>,
    [i \in 1..Len(v.args) |-> ResolveValue(v.args[i], defs, visiting)])>>)
ResolveValue(v, defs, visiting) ==
  CASE v.kind \in Literals \cup {"state"} -> v
    [] v.kind = "component" -> ResolveNode(<<"(inline)">>, v, defs, visiting)
    [] v.kind = "ref" ->
         CASE v.name \notin DOMAIN defs -> Value("hole", v.name, <<>>)
           [] v.name \in DOMAIN defs /\ defs[v.name].kind # "component" ->
                Value("hole", v.name, <<>>)
           [] v.name \in visiting -> Value("loop", v.name, <<>>)
           [] OTHER -> ResolveNode(v.name, defs[v.name], defs, Visiting(v.name, visiting))
    [] OTHER -> [v EXCEPT !.args = [i \in 1..Len(@) |-> ResolveValue(@[i], defs, visiting)]]

NoTree == Value("none", <<>>, <<>>)
Tree(defs) ==
  IF <<"root">> \in DOMAIN defs /\ defs[<<"root">>].kind = "component"
  THEN ResolveNode(<<"root">>, defs[<<"root">>], defs, {<<"root">>}) ELSE NoTree

\* foldSurface: the statements of all batches merged, then resolved once.
SurfaceOf(defs, tree) ==
  [defs |-> defs, tree |-> tree,
   states |-> [n \in {k \in DOMAIN defs : k[1] = "$"} |-> defs[n].name],
   errors |-> ResolveErrors(defs, TRUE) \cup {<<"circular", n>> : n \in Mentioned(tree, "loop")}]
Folded(defs) == SurfaceOf(defs, Tree(defs))
FoldSurface(batches) ==
  Folded(Statements(FoldLeft(LAMBDA all, b : all \o SplitStatements(b), <<>>, batches)))

(***************************************************************************)
(* A text still arriving                                                   *)
(***************************************************************************)

LastLine(source) ==
  LET ends == {i \in 1..Len(source) : source[i] = NewLine}
  IN  SubSeq(source, 1 + Max(ends \cup {0}), Len(source))
WithoutLastLine(source) ==
  LET n == Len(source) - Len(LastLine(source)) IN SubSeq(source, 1, IF n = 0 THEN 0 ELSE n - 1)

\* The closers a text still lacks, innermost first.
StackStep(at, p) ==
  CASE p.k = "quote" -> [at EXCEPT !.open = ~@]
    [] at.open -> at
    [] p = Sign("(") -> [at EXCEPT !.stack = <<Sign(")")>> \o @]
    [] p = Sign("[") -> [at EXCEPT !.stack = <<Sign("]")>> \o @]
    [] p \in {Sign(")"), Sign("]")} -> [at EXCEPT !.stack = IF @ = <<>> THEN @ ELSE Tail(@)]
    [] OTHER -> at

OpenAtEnd(source) == FoldLeft(StackStep, [stack |-> <<>>, open |-> FALSE], source)
Balanced(source) == OpenAtEnd(source) = [stack |-> <<>>, open |-> FALSE]

\* autocloseFragment: what is open is closed; a balanced last line that is no statement yet
\* is cut off.
AutocloseFragment(source) ==
  LET end == OpenAtEnd(source)
      last == LastLine(source)
  IN  IF ~Balanced(source)
      THEN source \o (IF end.open THEN <<Quote>> ELSE <<>>) \o end.stack
      ELSE IF last # <<>> /\ (Sign("=") \notin ToSet(last) \/ Last(last) = Sign("="))
           THEN WithoutLastLine(source) ELSE source

\* parseMemo: what a statement parsed to is kept by its text.
MemoKey(text) == text
Memoize(memo, text) ==
  IF MemoKey(text) \in DOMAIN memo THEN memo
  ELSE (MemoKey(text) :> ParseRawStatement(text)) @@ memo

\* createIncrementalParser().push: the memo afterwards, and the program of this paint, whose
\* missing names nobody is told of before the end.
Painted(memo, outcomes, final) ==
  [memo |-> memo, defs |-> Merge(outcomes), refused |-> Refused(outcomes),
   errors |-> IF final THEN ResolveErrors(Merge(outcomes), TRUE) ELSE {}]
PaintWith(memo, raw, final) ==
  Painted(memo, [i \in 1..Len(raw) |-> memo[MemoKey(raw[i])]], final)
PushRaw(memo, raw, final) == PaintWith(FoldLeft(Memoize, memo, raw), raw, final)
Push(memo, source, final) ==
  PushRaw(memo, SplitStatements(IF final THEN source ELSE AutocloseFragment(source)), final)
=============================================================================
