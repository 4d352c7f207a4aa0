------------------------- MODULE ThiserrorTokenExpr -------------------------
(***************************************************************************)
(* parse_token_expr of src/thiserror/impl/src/attr.rs: the format         *)
(* arguments of #[error("...", args)] are copied token by token, except    *)
(* that at the start of an expression `.field` becomes `field` and `.0`    *)
(* becomes `_0`. An expression starts at the start of a delimited group    *)
(* (begin_expr = true in the recursive call) and after a keyword or        *)
(* punctuation the code lists; the top-level call starts with              *)
(* begin_expr = false. A token is abstracted to its kind; a delimited      *)
(* group (parentheses, braces, brackets: handled alike) holds atoms.       *)
(***************************************************************************)
EXTENDS Naturals, Sequences, SequencesExt

CONSTANTS
    MaxTokens,  \* the longest top-level token list checked
    MaxNested   \* the longest group content checked

\* dot: `.`; ident: an identifier that is no keyword; int: an unsuffixed
\* integer literal; int_suffixed: e.g. 0u8; begin: a keyword or punctuation
\* of the begin_expr list (if, match, `,`, `+`, `=`, ...); other: any other
\* token (a literal, `?`, `::`, ...); tuple_field: the ident `_N` the code
\* builds with format_ident!
AtomKinds == {"dot", "ident", "int", "int_suffixed", "begin", "other"}
Atom(k) == [kind |-> k, body |-> <<>>]
Group(s) == [kind |-> "group", body |-> s]
Atoms == {Atom(k) : k \in AtomKinds}
Tokens == Atoms \cup {Group(s) : s \in BoundedSeq(Atoms, MaxNested)}

\* The tokens whose peek sets begin_expr (lines 153-174)
BeginsExpr(t) == t.kind = "begin"

Failed == [ok |-> FALSE, out |-> <<>>]
Parsed(out) == [ok |-> TRUE, out |-> out]

\* The `while !input.is_empty()` loop: with begin_expr set, `.` followed by
\* an identifier is dropped (the identifier is copied on the next turn) and
\* `.` followed by an integer becomes `_N` (Index parse fails on a suffix);
\* otherwise begin_expr is recomputed from the token, a group is copied with
\* its content parsed by the recursive call (begin_expr = true), and any
\* other token is copied. Errors return at once.
RECURSIVE ParseTokenExpr(_, _)
ParseTokenExpr(s, begin) ==
    LET RECURSIVE Loop(_, _, _)
        Loop(in, b, acc) ==
          IF in = <<>> THEN Parsed(acc)
          ELSE IF b /\ in[1].kind = "dot" /\ Len(in) > 1 /\ in[2].kind = "ident"
          THEN Loop(Tail(in), FALSE, acc)
          ELSE IF b /\ in[1].kind = "dot" /\ Len(in) > 1 /\ in[2].kind = "int"
          THEN Loop(Tail(Tail(in)), FALSE, Append(acc, Atom("tuple_field")))
          ELSE IF b /\ in[1].kind = "dot" /\ Len(in) > 1 /\ in[2].kind = "int_suffixed"
          THEN Failed
          ELSE LET t == IF in[1].kind = "group"
                        THEN LET n == ParseTokenExpr(in[1].body, TRUE)
                             IN IF n.ok THEN Parsed(<<Group(n.out)>>) ELSE Failed
                        ELSE Parsed(<<in[1]>>)
               IN IF t.ok THEN Loop(Tail(in), BeginsExpr(in[1]), acc \o t.out)
                  ELSE Failed
    IN Loop(s, begin, <<>>)

VARIABLES
    input,  \* the argument tokens after the format string
    done,   \* parse_token_expr has returned
    output  \* what it returned

vars == <<input, done, output>>

Init ==
    /\ input \in BoundedSeq(Tokens, MaxTokens)
    /\ done = FALSE /\ output = Failed

\* Mutant: the top-level call starts an expression
ParseBeginTrue ==
    /\ ~done /\ done' = TRUE
    /\ output' = ParseTokenExpr(input, TRUE)
    /\ UNCHANGED input

\* parse_error_attribute calls parse_token_expr(input, false)
Parse ==
    /\ ~done /\ done' = TRUE
    /\ output' = ParseTokenExpr(input, FALSE)
    /\ UNCHANGED input

Spec == Init /\ [][Parse]_vars

-----------------------------------------------------------------------------

\* The rewriting by position, without the loop: the dot at k starts a field
\* access when the token before it in the same group begins an expression,
\* or when it opens a group.
FieldDot(s, k, nested) ==
    /\ s[k].kind = "dot" /\ k < Len(s)
    /\ s[k + 1].kind \in {"ident", "int", "int_suffixed"}
    /\ IF k = 1 THEN nested ELSE BeginsExpr(s[k - 1])

RECURSIVE Rewritten(_, _)
Rewritten(s, nested) ==
    LET Piece(k) ==
          IF FieldDot(s, k, nested) THEN
             (IF s[k + 1].kind = "int" THEN <<Atom("tuple_field")>> ELSE <<>>)
          ELSE IF k > 1 /\ FieldDot(s, k - 1, nested) /\ s[k].kind = "int" THEN <<>>
          ELSE IF s[k].kind = "group" THEN <<Group(Rewritten(s[k].body, TRUE))>>
          ELSE <<s[k]>>
    IN FlattenSeq([k \in 1..Len(s) |-> Piece(k)])

RECURSIVE Rejects(_, _)
Rejects(s, nested) ==
    \E k \in 1..Len(s) :
        \/ FieldDot(s, k, nested) /\ s[k + 1].kind = "int_suffixed"
        \/ s[k].kind = "group" /\ Rejects(s[k].body, TRUE)

\* parse_token_expr fails exactly when a field access by a suffixed integer
\* appears at the start of an expression, anywhere in the groups, and
\* otherwise drops the dot of every field access that starts an expression
\* and renames every tuple index to _N, leaving every other token, and every
\* dot that follows an operand such as `x.0`, as it was.
RewritesFieldAccess ==
    done =>
        IF Rejects(input, FALSE) THEN ~output.ok
        ELSE output = Parsed(Rewritten(input, FALSE))

=============================================================================
