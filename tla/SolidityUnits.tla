---------------------------- MODULE SolidityUnits ----------------------------
(***************************************************************************)
(* extract_functions: which functions a Solidity source contains, and on   *)
(* which lines.  A source is a sequence of tokens.  The first pass blanks  *)
(* comments and string literals; the second takes one declaration keyword  *)
(* after the other.  Sources are put together from pieces of which it is   *)
(* known whether they are a function (SolidityMembers).                    *)
(***************************************************************************)
EXTENDS SolidityMembers, Selection

CONSTANTS
    Pieces,     \* members of a contract: tokens, and the kind of unit or NoUnit
    NoUnit,
    MaxPieces   \* bound: members of the contract

ASSUME SolidityUnitsAssumption ==
    /\ \A p \in Pieces : p.tokens \in Seq(Token) /\ p.kind \in Token \cup {NoUnit}
    /\ NoUnit \notin Token
    /\ \A p \in Pieces : IF p.kind = NoUnit THEN IsOther(p.tokens) ELSE IsFunction(p.tokens, p.kind)
    /\ MaxPieces \in Nat

VARIABLES
    members,   \* the pieces the contract is made of
    source,    \* its tokens
    masked,    \* out in mask_source, then masked
    pos,       \* i in mask_source, then the position of _DECL.finditer
    quote,     \* the quote that ends the literal, "blank" outside of one
    scan,      \* the pass: "mask", "units" or "done"
    units      \* the units found so far

scanVars == <<members, source, masked, pos, quote, scan, units>>

-----------------------------------------------------------------------------
(* The source *)

Opening == <<"name", "lbrace">>
Ending == <<"rbrace", "newline">>

TextOf(pieces) == FlattenSeq([i \in DOMAIN pieces |-> pieces[i].tokens])

\* line_of: one more than the line ends before the offset.
LineOf(i) == 1 + Cardinality({j \in 1 .. i - 1 : source[j] = "newline"})

Lines == Cardinality({j \in DOMAIN source : source[j] = "newline"})

\* The first of some positions, or none.
FirstOf(positions) == IF positions = {} THEN 0 ELSE Min(positions)

From(i) == i .. Len(masked)

ScanInit ==
    /\ members \in UNION {[1 .. n -> Pieces] : n \in 0 .. MaxPieces}
    /\ source = Opening \o TextOf(members) \o Ending
    /\ masked = source
    /\ pos = 1
    /\ quote = "blank"
    /\ scan = "mask"
    /\ units = <<>>

-----------------------------------------------------------------------------
(* mask_source *)

\* out[i:j] becomes blanks; a line end is not kept within a block comment.
Blank(i, j) == [k \in DOMAIN masked |-> IF k \in i .. j THEN "blank" ELSE masked[k]]

InCode == scan = "mask" /\ pos <= Len(masked) /\ quote = "blank"

MaskLineComment ==
    LET newline == FirstOf({j \in From(pos) : source[j] = "newline"})
        end == IF newline = 0 THEN Len(masked) + 1 ELSE newline
    IN  /\ InCode /\ source[pos] = "line_comment"
        /\ masked' = Blank(pos, end - 1)
        /\ pos' = end
        /\ UNCHANGED <<members, source, quote, scan, units>>

\* A comment that is not closed ends with the source.
MaskBlockComment ==
    LET close == FirstOf({j \in From(pos + 1) : source[j] = "comment_close"})
        end == IF close = 0 THEN Len(masked) ELSE close
    IN  /\ InCode /\ source[pos] = "comment_open"
        /\ masked' = Blank(pos, end)
        /\ pos' = end + 1
        /\ UNCHANGED <<members, source, quote, scan, units>>

OpenString ==
    /\ InCode /\ source[pos] \in {"double_quote", "single_quote"}
    /\ quote' = source[pos]
    /\ masked' = Blank(pos, pos)
    /\ pos' = pos + 1
    /\ UNCHANGED <<members, source, scan, units>>

\* Mutant: a backslash does not protect the next token.
NoEscapes(i) == 1

\* A backslash takes the token after it along.
Taken(i) == IF source[i] = "backslash" THEN 2 ELSE 1

InString ==
    /\ scan = "mask" /\ pos <= Len(masked) /\ quote # "blank"
    /\ masked' = Blank(pos, pos + Taken(pos) - 1)
    /\ quote' = IF source[pos] = quote THEN "blank" ELSE quote
    /\ pos' = pos + Taken(pos)
    /\ UNCHANGED <<members, source, scan, units>>

KeepToken ==
    /\ InCode /\ source[pos] \notin {"line_comment", "comment_open", "double_quote", "single_quote"}
    /\ pos' = pos + 1
    /\ UNCHANGED <<members, source, masked, quote, scan, units>>

EndMask ==
    /\ scan = "mask" /\ pos > Len(masked)
    /\ scan' = "units"
    /\ pos' = 1
    /\ UNCHANGED <<members, source, masked, quote, units>>

-----------------------------------------------------------------------------
(* extract_functions *)

Visible(i) == FirstOf({j \in From(i) : masked[j] \notin Space})

\* _skip_parens and _match_brace: where the bracket opened at i is closed.
ClosedAt(i, open, close) ==
    LET count(b, j) == Cardinality({k \in i .. j : masked[k] = b})
    IN  FirstOf({j \in From(i) : count(open, j) = count(close, j)})

Match == FirstOf({j \in From(pos) : masked[j] \in Declares})

Named(d) == Visible(d + 1) # 0 /\ masked[Visible(d + 1)] \in Identifier

\* A function without a name is an old style fallback.
KindAt(d) == IF masked[d] = "function" /\ ~Named(d) THEN "fallback" ELSE masked[d]

ParensAt(d) == IF masked[d] = "function" /\ Named(d)
               THEN Visible(Visible(d + 1) + 1) ELSE Visible(d + 1)

\* Mutant: a semicolon does not end the search for a body.
NextBrace(i) == FirstOf({j \in From(i) : masked[j] = "lbrace"})

\* Where the header ends: at a body, or at the end of a mere declaration.
HeaderEnd(i) == FirstOf({j \in From(i) : masked[j] \in {"lbrace", "semicolon"}})

\* Where the body of the declaration at d ends, or none.
BodyEnd(d) ==
    LET params == ParensAt(d)
        after == IF params # 0 /\ masked[params] = "lparen"
                 THEN ClosedAt(params, "lparen", "rparen") ELSE 0
        end == IF after = 0 THEN 0 ELSE HeaderEnd(after + 1)
    IN  IF end # 0 /\ masked[end] = "lbrace" THEN ClosedAt(end, "lbrace", "rbrace") ELSE 0

TakeUnit ==
    /\ scan = "units" /\ Match # 0
    /\ BodyEnd(Match) # 0
    /\ units' = Append(units, [kind |-> KindAt(Match),
                               first |-> LineOf(Match), last |-> LineOf(BodyEnd(Match))])
    /\ pos' = Match + 1
    /\ UNCHANGED <<members, source, masked, quote, scan>>

\* No parameter list, no body, or a body that is not closed.
PassDeclaration ==
    /\ scan = "units" /\ Match # 0
    /\ BodyEnd(Match) = 0
    /\ pos' = Match + 1
    /\ UNCHANGED <<members, source, masked, quote, scan, units>>

EndUnits ==
    /\ scan = "units" /\ Match = 0
    /\ scan' = "done"
    /\ UNCHANGED <<members, source, masked, pos, quote, units>>

ScanStep ==
    \/ MaskLineComment \/ MaskBlockComment \/ OpenString \/ InString \/ KeepToken \/ EndMask
    \/ TakeUnit \/ PassDeclaration \/ EndUnits

-----------------------------------------------------------------------------
(* What was written *)

\* The first token of a member, and the last one before its line end.
StartOf(i) == 1 + Len(Opening) + Len(TextOf(SubSeq(members, 1, i - 1)))
EndOf(i) == StartOf(i) + Len(members[i].tokens) - 2

Bodied == {i \in DOMAIN members : members[i].kind # NoUnit}

UnitOf(i) == [kind |-> members[i].kind, first |-> LineOf(StartOf(i)), last |-> LineOf(EndOf(i))]

WrittenUnits == [n \in 1 .. Cardinality(Bodied) |-> UnitOf(InOrder(Bodied)[n])]

\* The units found are those that were written, in their order and on their lines:
\* comments, literals, declarations without a body and nested brackets add none,
\* hide none and cut none short (extract_functions, defects D2 to D5 of
\* solidity_units.py).
FoundAsWritten == scan = "done" => units = WrittenUnits
=============================================================================
