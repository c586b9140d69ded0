---------------------------- MODULE MatchResult ----------------------------
(***************************************************************************)
(* match_result and the execute_code RPC of src/sorna/agent/server.py: a  *)
(* match object {op, target, value} is tested against the result of an   *)
(* execution.  Strings are sequences of characters; a value used as a     *)
(* regular expression is drawn from literal characters, "." (any          *)
(* character but a newline; contents hold none) and the anchor "^", which *)
(* is where re.search's behaviour is decided for these inputs.  A match   *)
(* object is a function from the keys it has; an exception is its name.   *)
(***************************************************************************)
EXTENDS Integers, Sequences, SequencesExt

CONSTANTS
    NonStr      \* a match value that is not a str (e.g. an int)

\* The outcome of match_result: a Boolean, or the exception it raises.
Raises(e) == [err |-> e]

MatchKeys == {"op", "target", "value"}

\* re.match at position i of c of the pattern p: "^" holds only at the
\* start of the string, "." takes any character, a literal itself.
RECURSIVE MatchHere(_, _, _)
MatchHere(p, c, i) ==
    IF p = <<>> THEN TRUE
    ELSE CASE Head(p) = "^"   -> i = 1 /\ MatchHere(Tail(p), c, i)
           [] i > Len(c)      -> FALSE
           [] Head(p) = "." \/ Head(p) = c[i] -> MatchHere(Tail(p), c, i + 1)
           [] OTHER           -> FALSE

\* re.search(value, content) is not None: a match at some position.
Search(p, c) == \E i \in 1 .. Len(c) + 1 : MatchHere(p, c, i)

\* Fault variant of MatchResult: the regex operator uses re.match, which
\* only matches at the start of the content, instead of re.search.
MatchResultReMatch(result, match) ==
    IF ~(MatchKeys \subseteq DOMAIN match) THEN Raises("TypeError")
    ELSE LET op == match["op"]  target == match["target"]  value == match["value"]
         IN CASE op \notin {"contains", "equal", "regex"}           -> Raises("AssertionError")
              [] target \notin {"stdout", "stderr", "exception"}   -> Raises("AssertionError")
              [] value = NonStr                                     -> Raises("AssertionError")
              [] target = "exception" /\ result.exceptions = <<>>   -> FALSE
              [] OTHER ->
                   LET content == IF target = "exception"
                                  THEN Last(result.exceptions)
                                  ELSE result[target]
                   IN CASE op = "contains" -> value \in SubSeqs(content)
                        [] op = "equal"    -> value = content
                        [] OTHER           -> MatchHere(value, content, 1)

\* match_result: a missing key is a TypeError, then op, target and the
\* value's type are asserted in that order; the exception target with no
\* exception recorded is False; contains is `value in content`.
MatchResult(result, match) ==
    IF ~(MatchKeys \subseteq DOMAIN match) THEN Raises("TypeError")
    ELSE LET op == match["op"]  target == match["target"]  value == match["value"]
         IN CASE op \notin {"contains", "equal", "regex"}           -> Raises("AssertionError")
              [] target \notin {"stdout", "stderr", "exception"}   -> Raises("AssertionError")
              [] value = NonStr                                     -> Raises("AssertionError")
              [] target = "exception" /\ result.exceptions = <<>>   -> FALSE
              [] OTHER ->
                   LET content == IF target = "exception"
                                  THEN Last(result.exceptions)
                                  ELSE result[target]
                   IN CASE op = "contains" -> value \in SubSeqs(content)
                        [] op = "equal"    -> value = content
                        [] OTHER           -> Search(value, content)

\* execute_code: the reply of _execute_code, with match_result added when
\* a (non-empty) match object came with the call.
ExecuteCodeReply(result, match) ==
    IF match = <<>> THEN result
    ELSE [f \in DOMAIN result \cup {"match_result"} |->
            IF f = "match_result" THEN MatchResult(result, match) ELSE result[f]]

-----------------------------------------------------------------------------
(* The reference (specification 4.4): the content is stdout, stderr or   *)
(* the name of the last exception; contains means "occurs at some offset" *)
(* and a pattern occurs where its "^"s stand before everything it reads   *)
(* at offset 0 and each character it reads is "." or equal.  A malformed  *)
(* match object is refused: a missing key as TypeError, a bad operator,   *)
(* target or value type as AssertionError.                                 *)

OccursAt(v, c, i) ==
    /\ i + Len(v) <= Len(c)
    /\ \A j \in 1 .. Len(v) : v[j] = c[i + j]

PatternAt(p, c, i) ==
    LET reads == SelectSeq(p, LAMBDA x : x # "^")
        before(j) == Len(SelectSeq(SubSeq(p, 1, j - 1), LAMBDA x : x # "^"))
    IN /\ \A j \in 1 .. Len(p) : p[j] = "^" => i + before(j) = 0
       /\ i + Len(reads) <= Len(c)
       /\ \A j \in 1 .. Len(reads) : reads[j] = "." \/ reads[j] = c[i + j]

MatchReference(result, match) ==
    LET has(key) == key \in DOMAIN match
        ok == /\ match["op"] \in {"contains", "equal", "regex"}
              /\ match["target"] \in {"stdout", "stderr", "exception"}
              /\ match["value"] # NonStr
    IN IF ~(has("op") /\ has("target") /\ has("value")) THEN Raises("TypeError")
       ELSE IF ~ok THEN Raises("AssertionError")
       ELSE LET v == match["value"]
                named == match["target"] = "exception"
                n == Len(result.exceptions)
                c == IF named THEN result.exceptions[n] ELSE result[match["target"]]
            IN /\ (named => n > 0)
               /\ CASE match["op"] = "equal"    -> v = c
                    [] match["op"] = "contains" -> \E i \in 0 .. Len(c) : OccursAt(v, c, i)
                    [] OTHER                    -> \E i \in 0 .. Len(c) : PatternAt(v, c, i)

\* The reply: the result, and match_result when a match object was sent.
ReplyReference(result, match) ==
    IF match = <<>> THEN result
    ELSE [f \in DOMAIN result \cup {"match_result"} |->
            IF f = "match_result" THEN MatchReference(result, match)
            ELSE result[f]]

=============================================================================
