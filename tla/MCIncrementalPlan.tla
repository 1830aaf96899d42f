------------------------- MODULE MCIncrementalPlan -------------------------
(***************************************************************************)
(* Contracts of up to two members.                                         *)
(***************************************************************************)
EXTENDS IncrementalPlan, TLC

Parens == <<"lparen", "rparen">>
Braces == <<"lbrace", "rbrace">>
Header == <<"function", "name">> \o Parens

Member(kind, tokens) == [kind |-> kind, tokens |-> tokens \o <<"newline">>]

Function(body) == Member("function", Header \o <<"lbrace">> \o body \o <<"rbrace">>)

Other(tokens) == Member(NoUnit, tokens)

MCPieces == {
    \* bodies: on two lines, with a block, and with brackets in a literal or comment
    Function(<<"newline", "keyword", "semicolon">>),
    Function(<<"lbrace", "name", "semicolon", "rbrace">>),
    Function(<<"double_quote", "rbrace", "backslash", "double_quote", "double_quote", "semicolon">>),
    Function(<<"single_quote", "double_quote", "lbrace", "single_quote", "semicolon">>),
    Function(<<"line_comment", "rbrace", "single_quote", "newline">>),
    Function(<<"comment_open", "lbrace", "newline", "line_comment", "comment_close">>),
    \* a modifier with an argument, and the units without a name
    Member("function", <<"function", "name", "lparen", "name">> \o Parens
                       \o <<"rparen", "name", "lparen", "name", "rparen">> \o Braces),
    Member("constructor", <<"constructor">> \o Parens \o Braces),
    Member("fallback", <<"function">> \o Parens \o Braces),
    \* no units: a declaration, a variable of a function type, a comment and a literal
    Other(Header \o <<"semicolon">>),
    Other(<<"function", "lparen", "name", "rparen", "name", "semicolon">>),
    Other(<<"line_comment">> \o Header \o <<"lbrace">>),
    Other(<<"comment_open", "function", "name", "newline", "comment_close">>),
    Other(<<"name", "double_quote">> \o Header \o <<"lbrace", "double_quote", "semicolon">>)}

MCSections == {<<"mine">>, <<"mine", "deleted">>, <<"other", "mine">>}
=============================================================================
