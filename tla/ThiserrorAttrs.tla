--------------------------- MODULE ThiserrorAttrs ---------------------------
(***************************************************************************)
(* attr::get and parse_error_attribute of                                  *)
(* src/thiserror/impl/src/attr.rs: the loop over the attributes of a      *)
(* field or variant that fills the Attrs slots, with one action per branch *)
(* of the loop. An attribute is abstracted to its path, its Meta form and, *)
(* for #[error(...)], what its arguments start with; the fmt string and    *)
(* argument tokens themselves are modelled in ThiserrorTokenExpr.          *)
(***************************************************************************)
EXTENDS Naturals, Sequences, SequencesExt

CONSTANT MaxAttrs  \* the longest attribute list checked

Metas == {"path", "list", "namevalue"}  \* #[x], #[x(...)], #[x = ...]
\* the arguments of #[error(...)]: transparent, a string literal alone, a
\* string literal and format arguments, or something that is no string
ErrorArgs == {"transparent", "fmt", "fmt_args", "no_fmt"}
Attributes ==
    {[path |-> "error", meta |-> "list", arg |-> a] : a \in ErrorArgs}
    \cup {[path |-> "error", meta |-> m, arg |-> "none"] : m \in {"path", "namevalue"}}
    \cup [path : {"source", "backtrace", "from"}, meta : Metas, arg : {"none"}]
    \cup {[path |-> "doc", meta |-> "namevalue", arg |-> "none"]}

\* The Option fields of Attrs; a slot holds the index of its attribute, 0 is None
Slots == {"display", "source", "backtrace", "from", "transparent"}
NoAttrs == [x \in Slots |-> 0]

VARIABLES
    input,      \* the attribute list
    i,          \* the loop's position in it
    attrs,      \* Attrs being filled
    machinery,  \* Display::requires_fmt_machinery of the display slot
    result,     \* Running, Ok, or the error get returns
    code        \* what Display::to_tokens generated for the display slot

vars == <<input, i, attrs, machinery, result, code>>

Running == [kind |-> "running"]
Ok == [kind |-> "ok"]
Malformed(at) == [kind |-> "malformed", at |-> at]
Duplicate(slot, at) == [kind |-> "duplicate", slot |-> slot, at |-> at]

Init ==
    /\ input \in BoundedSeq(Attributes, MaxAttrs)
    /\ i = 1 /\ attrs = NoAttrs /\ machinery = FALSE /\ result = Running
    /\ code = "none"

\* Loop step on an attribute that leaves the slots as they are
Skip == i' = i + 1 /\ UNCHANGED <<input, attrs, machinery, result>>
\* Loop step that returns an error
Return(err) == result' = err /\ UNCHANGED <<input, i, attrs, machinery>>
\* Loop step that fills slot
Fill(slot) ==
    /\ attrs' = [attrs EXCEPT ![slot] = i] /\ i' = i + 1
    /\ UNCHANGED <<input, result>>

Current == input[i]

\* parse_error_attribute: parse_args_with fails unless the attribute is a
\* list; transparent fills its slot unless filled; else a string literal
\* is parsed, then the arguments, and only then is the display slot checked
ErrorAttribute ==
    /\ result = Running /\ i <= Len(input) /\ Current.path = "error"
    /\ \/ Current.meta # "list" /\ Return(Malformed(i))
       \/ /\ Current.meta = "list" /\ Current.arg = "transparent"
          /\ IF attrs.transparent # 0 THEN Return(Duplicate("transparent", i))
             ELSE Fill("transparent") /\ UNCHANGED machinery
       \/ /\ Current.meta = "list" /\ Current.arg = "no_fmt"
          /\ Return(Malformed(i))
       \/ /\ Current.meta = "list" /\ Current.arg \in {"fmt", "fmt_args"}
          /\ IF attrs.display # 0 THEN Return(Duplicate("display", i))
             ELSE Fill("display") /\ machinery' = (Current.arg = "fmt_args")

\* #[source] and #[backtrace]: require_path_only, then the duplicate check
PathOnlyAttribute(slot) ==
    /\ result = Running /\ i <= Len(input) /\ Current.path = slot
    /\ \/ Current.meta # "path" /\ Return(Malformed(i))
       \/ /\ Current.meta = "path"
          /\ IF attrs[slot] # 0 THEN Return(Duplicate(slot, i))
             ELSE Fill(slot) /\ UNCHANGED machinery

\* Mutant: #[from(...)] is not skipped
FromAttributeNoSkip ==
    /\ result = Running /\ i <= Len(input) /\ Current.path = "from"
    /\ IF attrs.from # 0 THEN Return(Duplicate("from", i))
       ELSE Fill("from") /\ UNCHANGED machinery

\* #[from]: a list or name-value form is left to other derives (continue);
\* a bare #[from] is checked for a duplicate and fills its slot
FromAttribute ==
    /\ result = Running /\ i <= Len(input) /\ Current.path = "from"
    /\ \/ Current.meta # "path" /\ Skip
       \/ /\ Current.meta = "path"
          /\ IF attrs.from # 0 THEN Return(Duplicate("from", i))
             ELSE Fill("from") /\ UNCHANGED machinery

\* Any other attribute is ignored
OtherAttribute ==
    /\ result = Running /\ i <= Len(input)
    /\ Current.path \notin {"error", "source", "backtrace", "from"}
    /\ Skip

\* The loop has run over every attribute: Ok(attrs)
Finish ==
    /\ result = Running /\ i > Len(input)
    /\ result' = Ok /\ UNCHANGED <<input, i, attrs, machinery>>

\* Mutant of DisplayCode: the two branches swapped
DisplayCodeSwapped(fmtMachinery) == IF fmtMachinery THEN "write_str" ELSE "write"

\* Display::to_tokens: `write!(__formatter, #fmt #args)` when the display
\* requires the fmt machinery, else `__formatter.write_str(#fmt)`
DisplayCode(fmtMachinery) == IF fmtMachinery THEN "write" ELSE "write_str"

\* The derive turns the display of the Attrs get returned into tokens
DisplayToTokens ==
    /\ result = Ok /\ attrs.display # 0 /\ code = "none"
    /\ code' = DisplayCode(machinery)
    /\ UNCHANGED <<input, i, attrs, machinery, result>>

Next ==
    \/ /\ \/ ErrorAttribute
          \/ \E slot \in {"source", "backtrace"} : PathOnlyAttribute(slot)
          \/ FromAttribute
          \/ OtherAttribute
          \/ Finish
       /\ UNCHANGED code
    \/ DisplayToTokens

Spec == Init /\ [][Next]_vars

-----------------------------------------------------------------------------

\* The reference rules, stated per attribute without the loop: the slot an
\* attribute fills, whether it is rejected on its own, and the first
\* attribute that is rejected or repeats a slot an earlier one filled.
SlotOf(a) ==
    CASE a.path = "error" /\ a.meta = "list" /\ a.arg = "transparent" -> "transparent"
      [] a.path = "error" /\ a.meta = "list" /\ a.arg \in {"fmt", "fmt_args"} -> "display"
      [] a.path \in {"source", "backtrace", "from"} /\ a.meta = "path" -> a.path
      [] OTHER -> "none"

Rejected(a) ==
    \/ a.path = "error" /\ (a.meta # "list" \/ a.arg = "no_fmt")
    \/ a.path \in {"source", "backtrace"} /\ a.meta # "path"

Bad(s, k) ==
    \/ Rejected(s[k])
    \/ SlotOf(s[k]) # "none" /\ \E j \in 1..(k - 1) : SlotOf(s[j]) = SlotOf(s[k])

RefResult(s) ==
    IF \E k \in 1..Len(s) : Bad(s, k)
    THEN LET k == CHOOSE k \in 1..Len(s) : Bad(s, k) /\ \A j \in 1..(k - 1) : ~Bad(s, j)
         IN IF Rejected(s[k]) THEN Malformed(k) ELSE Duplicate(SlotOf(s[k]), k)
    ELSE Ok

RefAttrs(s) ==
    [x \in Slots |-> IF \E k \in 1..Len(s) : SlotOf(s[k]) = x
                     THEN CHOOSE k \in 1..Len(s) : SlotOf(s[k]) = x ELSE 0]

\* Whatever the attribute list, get returns the error of the first attribute
\* that is malformed or repeats a slot (a malformed #[error] is reported as
\* malformed even when it also repeats one), and otherwise fills each slot
\* with the one attribute of its kind, a display needing the fmt machinery
\* exactly when it has arguments; #[from(...)] lists fill nothing. The
\* Display code generated from it formats with write! and its arguments
\* exactly when the attribute has some: no argument is dropped by the
\* write_str fast path.
GetMatchesReference ==
    result # Running =>
        /\ result = RefResult(input)
        /\ result = Ok =>
             /\ attrs = RefAttrs(input)
             /\ machinery = (attrs.display # 0 /\ input[attrs.display].arg = "fmt_args")
             /\ code # "none" =>
                  code = IF input[attrs.display].arg = "fmt_args" THEN "write" ELSE "write_str"

=============================================================================
