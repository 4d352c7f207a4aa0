---------------------------- MODULE ErrorChain ----------------------------
(***************************************************************************)
(* The iterator over an error and its causes, src/anyerr/src/chain.rs     *)
(* (std build). A Chain starts Linked at its head error (Chain::new) or    *)
(* Buffered and empty (Chain::default). next follows source() links while  *)
(* Linked; the first next_back walks the whole rest of the list into a     *)
(* buffer and switches to Buffered, where both ends are popped. len walks  *)
(* the links again when Linked.                                            *)
(* The source() links are a variable fixed in Init, so one run covers      *)
(* every acyclic shape of error list over the model errors. The head may   *)
(* be a BoxedError of src/anyerr/src/wrapper.rs, which displays as the     *)
(* error it boxes and delegates source() to it; MessageError and           *)
(* DisplayError values keep the default source(), None.                    *)
(***************************************************************************)
EXTENDS Naturals, Sequences, SequencesExt

CONSTANTS
    Errors,    \* the error values
    Messages,  \* the ones that are MessageError or DisplayError wrappers
    None,      \* Option::None
    NotCalled  \* no call has returned yet

ASSUME Messages \subseteq Errors /\ None \notin Errors /\ NotCalled \notin Errors \cup {None}

VARIABLES
    source,  \* StdError::source of each error (fixed)
    head,    \* the error the chain was made from, None for Chain::default
    chain,   \* Chain.state
    front,   \* the errors next has returned, in order
    back,    \* the errors next_back has returned, in order
    ret      \* what the last call returned, NotCalled before the first

vars == <<source, head, chain, front, back, ret>>

Linked(n) == [kind |-> "Linked", next |-> n]
Buffered(r) == [kind |-> "Buffered", rest |-> r]

\* BoxedError(e): a boxed dyn StdError
Boxed(e) == [boxed |-> e]
IsBoxed(x) == x \in {Boxed(e) : e \in Errors}

\* StdError::source: BoxedError asks the boxed error; the others have the
\* links fixed in Init (None for MessageError and DisplayError)
Source(x) == IF IsBoxed(x) THEN source[x.boxed] ELSE source[x]

\* Display::fmt (and Debug::fmt): every wrapper shows what it wraps
Shown(x) == IF IsBoxed(x) THEN x.boxed ELSE x

\* MessageError and DisplayError implement StdError with the default
\* source(), and Display/Debug by the message's own (Shown is the identity)
DefaultSource(src) == \A m \in Messages : src[m] = None

\* source() links that end in None from every error: a cause list is finite
Acyclic(src) ==
    \A e \in Errors : \E k \in 1..Cardinality(Errors) :
        LET RECURSIVE Walk(_, _)
            Walk(x, i) == IF i = 0 THEN x ELSE IF x = None THEN None
                          ELSE Walk(src[x], i - 1)
        IN Walk(e, k) = None

\* The loops `while let Some(cause) = next { next = cause.source(); ... }`
\* of next_back and len: the errors from e on, following source()
RECURSIVE Collect(_)
Collect(e) == IF e = None THEN <<>> ELSE <<e>> \o Collect(Source(e))

\* Mutant: the len loop counts the links after next, not the errors
LenOfOffByOne(c) ==
    IF c.kind = "Linked" THEN Len(Collect(c.next)) - 1 ELSE Len(c.rest)

\* ExactSizeIterator::len (size_hint returns it as both bounds)
LenOf(c) ==
    IF c.kind = "Linked" THEN Len(Collect(c.next)) ELSE Len(c.rest)

\* The errors a chain can start from
Heads == Errors \cup {Boxed(e) : e \in Errors}

TypeOK ==
    /\ source \in [Errors -> Errors \cup {None}]
    /\ head \in Heads \cup {None}
    /\ chain \in {Linked(n) : n \in Heads \cup {None}}
                 \cup {Buffered(r) : r \in BoundedSeq(Heads, Cardinality(Errors))}
    /\ front \in Seq(Heads) /\ back \in Seq(Heads)
    /\ ret \in Heads \cup {None, NotCalled}

\* Chain::new(head), or Chain::default(), over any acyclic source() links
Init ==
    /\ source \in {s \in [Errors -> Errors \cup {None}] :
                     Acyclic(s) /\ DefaultSource(s)}
    /\ \/ head \in Heads /\ chain = Linked(head)
       \/ head = None /\ chain = Buffered(<<>>)
    /\ front = <<>> /\ back = <<>>
    /\ ret = NotCalled

\* Mutant: the `?` on the Linked arm is missing, None is yielded as an item
NextNoEarlyReturn ==
    /\ chain.kind = "Linked"
    /\ chain' = Linked(IF chain.next = None THEN None ELSE Source(chain.next))
    /\ front' = Append(front, chain.next) /\ ret' = chain.next
    /\ UNCHANGED <<source, head, back>>

\* Mutant: the buffered arm stops one item early
NextStopsEarly ==
    /\ \/ /\ chain.kind = "Linked" /\ chain.next # None
          /\ chain' = Linked(Source(chain.next))
          /\ front' = Append(front, chain.next) /\ ret' = chain.next
       \/ /\ chain.kind = "Buffered" /\ Len(chain.rest) > 1
          /\ chain' = Buffered(Tail(chain.rest))
          /\ front' = Append(front, Head(chain.rest)) /\ ret' = Head(chain.rest)
       \/ /\ \/ chain.kind = "Linked" /\ chain.next = None
             \/ chain.kind = "Buffered" /\ Len(chain.rest) <= 1
          /\ ret' = None /\ UNCHANGED <<chain, front>>
    /\ UNCHANGED <<source, head, back>>

\* Iterator::next: Linked returns next and moves to its source(), or returns
\* None at the end; Buffered pops the front of the buffer
ChainNext ==
    /\ \/ /\ chain.kind = "Linked" /\ chain.next # None
          /\ chain' = Linked(Source(chain.next))
          /\ front' = Append(front, chain.next) /\ ret' = chain.next
       \/ /\ chain.kind = "Buffered" /\ chain.rest # <<>>
          /\ chain' = Buffered(Tail(chain.rest))
          /\ front' = Append(front, Head(chain.rest)) /\ ret' = Head(chain.rest)
       \/ /\ \/ chain.kind = "Linked" /\ chain.next = None
             \/ chain.kind = "Buffered" /\ chain.rest = <<>>
          /\ ret' = None /\ UNCHANGED <<chain, front>>
    /\ UNCHANGED <<source, head, back>>

\* Mutant: the last cause is returned but the state stays Linked
NextBackNoSwitch ==
    /\ chain.kind = "Linked"
    /\ LET rest == Collect(chain.next)
       IN IF rest = <<>> THEN ret' = None /\ UNCHANGED back
          ELSE back' = Append(back, Last(rest)) /\ ret' = Last(rest)
    /\ UNCHANGED <<source, head, chain, front>>

\* DoubleEndedIterator::next_back: Linked collects the rest of the list,
\* pops its last item and becomes Buffered with the others; Buffered pops
\* the back of the buffer
NextBack ==
    /\ LET rest == IF chain.kind = "Linked" THEN Collect(chain.next)
                   ELSE chain.rest
       IN IF rest = <<>>
          THEN /\ chain' = Buffered(<<>>)
               /\ ret' = None /\ UNCHANGED back
          ELSE /\ chain' = Buffered(Front(rest))
               /\ back' = Append(back, Last(rest)) /\ ret' = Last(rest)
    /\ UNCHANGED <<source, head, front>>

\* The caller may call next or next_back in any order, any number of times
Next == ChainNext \/ NextBack

Spec == Init /\ [][Next]_vars

-----------------------------------------------------------------------------

\* The errors not yet returned, front to back
Remaining(c) == IF c.kind = "Linked" THEN Collect(c.next) ELSE c.rest

\* The cause list of h by its definition: h, then the source() of each
\* element, ending where source() is None (no recursion, no Chain state)
CauseList(h) ==
    IF h = None THEN <<>>
    ELSE LET rest == Source(h) IN
         <<h>> \o
         IF rest = None THEN <<>>
         ELSE CHOOSE s \in BoundedSeq(Errors, Cardinality(Errors)) :
                /\ s # <<>> /\ s[1] = rest
                /\ \A i \in 1..Len(s) - 1 : s[i + 1] = source[s[i]]
                /\ source[s[Len(s)]] = None

\* Whatever mix of next and next_back the caller makes, and whenever the
\* chain switches from Linked to Buffered, next has returned a prefix of the
\* cause list in order, next_back a suffix in reverse order, and the errors
\* still to come are exactly the ones between: no cause is skipped or
\* returned twice.
YieldsEachCauseOnce ==
    front \o Remaining(chain) \o Reverse(back) = CauseList(head)

\* next and next_back return None only when every cause has been returned.
NoneOnlyWhenExhausted ==
    ret = None => Len(front) + Len(back) = Len(CauseList(head))

\* len (and size_hint), in either state, is the number of causes the
\* iterator has not returned yet, as ExactSizeIterator requires.
LenIsRemaining ==
    LenOf(chain) = Len(CauseList(head)) - Len(front) - Len(back)

=============================================================================
