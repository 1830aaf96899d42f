--------------------------- MODULE SolidityMembers ---------------------------
(***************************************************************************)
(* What Solidity text means, as far as extract_functions depends on it:    *)
(* which tokens are code, and which declarations have a body.  It is what  *)
(* the scanner of SolidityUnits is measured against, and follows the       *)
(* language and not the scanner: text is read token by token, without      *)
(* looking ahead, and a declaration is described by where its parts are.   *)
(***************************************************************************)
EXTENDS Naturals, Sequences, FiniteSets

Token == {"function", "constructor", "receive", "fallback", "name", "keyword", "lparen",
          "rparen", "lbrace", "rbrace", "semicolon", "line_comment", "comment_open",
          "comment_close", "double_quote", "single_quote", "backslash", "newline", "blank"}

Declares == {"function", "constructor", "receive", "fallback"}
Space == {"blank", "newline"}
Identifier == Declares \cup {"name", "keyword"}

-----------------------------------------------------------------------------
(* Comments and literals *)

Quotes == {"double_quote", "single_quote"}
Begins == Quotes \cup {"line_comment", "comment_open"}

\* What a token can be within: nothing, a comment or a literal, named after the token
\* that begins it, or the place behind a backslash of a literal.
Within == Begins \cup {"blank", "double_escaped", "single_escaped"}

\* What the token behind t is within, when t is within w.
After(w, t) ==
    CASE w = "blank" -> IF t \in Begins THEN t ELSE w
      [] w = "line_comment" -> IF t = "newline" THEN "blank" ELSE w
      [] w = "comment_open" -> IF t = "comment_close" THEN "blank" ELSE w
      [] w = "double_quote" -> IF t = w THEN "blank" ELSE IF t = "backslash" THEN "double_escaped" ELSE w
      [] w = "single_quote" -> IF t = w THEN "blank" ELSE IF t = "backslash" THEN "single_escaped" ELSE w
      [] w = "double_escaped" -> "double_quote"
      [] w = "single_escaped" -> "single_quote"

\* What each token of a text is within, and what the end of the text is.
Reading(text) ==
    LET within[i \in 1 .. Len(text) + 1] ==
          IF i = 1 THEN "blank" ELSE After(within[i - 1], text[i - 1])
    IN  within

\* A comment or literal hides its tokens, the first one included, but a line comment
\* not the line end behind it.
Hidden(w, t) == IF w = "blank" THEN t \in Begins ELSE ~(w = "line_comment" /\ t = "newline")

Code(text) == [i \in DOMAIN text |-> IF Hidden(Reading(text)[i], text[i]) THEN "blank" ELSE text[i]]

-----------------------------------------------------------------------------
(* Declarations, by the positions of their parts in the code *)

\* The first of the tokens behind i is at j.
FirstBehind(code, i, tokens, j) ==
    /\ j \in i + 1 .. Len(code) /\ code[j] \in tokens
    /\ \A k \in i + 1 .. j - 1 : code[k] \notin tokens

Follows(code, i, j) == FirstBehind(code, i, Token \ Space, j)

\* The bracket opened at i is closed at j.
Closes(code, i, open, close, j) ==
    LET count(b, k) == Cardinality({l \in i .. k : code[l] = b})
    IN  /\ j \in i .. Len(code)
        /\ \A k \in i .. j : count(open, k) = count(close, k) <=> k = j

\* The declaration at d is of a kind, and behind its keyword, or the name of a function,
\* comes the token at a.  A function without a name is an old style fallback.
Heading(code, d, kind, a) ==
    \/ code[d] # "function" /\ kind = code[d] /\ Follows(code, d, a)
    \/ code[d] = "function" /\ kind = "fallback" /\ Follows(code, d, a) /\ code[a] \notin Identifier
    \/ /\ code[d] = "function" /\ kind = "function"
       /\ \E n \in DOMAIN code : /\ Follows(code, d, n) /\ code[n] \in Identifier
                                 /\ Follows(code, n, a)

\* The header with parameters at a ends at e, with a body or without.
HeaderEnds(code, a, e) ==
    \E b \in DOMAIN code : /\ Closes(code, a, "lparen", "rparen", b)
                           /\ FirstBehind(code, b, {"lbrace", "semicolon"}, e)

\* A declaration of a kind whose body ends at z.
HasBody(code, d, kind, z) ==
    \E a, e \in DOMAIN code :
        /\ Heading(code, d, kind, a) /\ code[a] = "lparen"
        /\ HeaderEnds(code, a, e) /\ code[e] = "lbrace"
        /\ Closes(code, e, "lbrace", "rbrace", z)

\* One without a body: not a declaration of a function at all, or a semicolon ends it.
HasNoBody(code, d) ==
    \E kind \in Declares, a \in DOMAIN code :
        /\ Heading(code, d, kind, a)
        /\ code[a] = "lparen" => \E e \in DOMAIN code : HeaderEnds(code, a, e) /\ code[e] = "semicolon"

-----------------------------------------------------------------------------
(* Members of a contract *)

\* No comment or literal goes on behind the text.
Closed(text) == Reading(text)[Len(text) + 1] = "blank"

\* From the position d on nothing is declared that has a body.
Plain(code, d) == \A i \in DOMAIN code : i >= d /\ code[i] \in Declares => HasNoBody(code, i)

\* A function of a kind: its keyword is first, and only a line end is behind its body.
IsFunction(text, kind) ==
    /\ Closed(text)
    /\ text # <<>> /\ Code(text)[1] \in Declares
    /\ HasBody(Code(text), 1, kind, Len(text) - 1)
    /\ Plain(Code(text), 2)

\* Anything else, as long as no function with a body is declared in it.
IsOther(text) == Closed(text) /\ Plain(Code(text), 1)
=============================================================================
