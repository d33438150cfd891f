---------------------------- MODULE SubjectMatch ----------------------------
(***************************************************************************)
(* The three functions of the repository that decide whether a pattern     *)
(* matches a subject: Router.Match (server/router.go), matchSubject        *)
(* (client/client.go) and CompiledPattern.matches with its guard           *)
(* isWildcardPattern (server/router_optimized.go).                         *)
(*                                                                         *)
(* A subject or pattern is the sequence of the segments that               *)
(* strings.Split(_, ".") yields; it is never empty, and the empty string   *)
(* is one empty segment.  The string tests translate exactly: a string     *)
(* ends in ".>" iff it has two or more segments and the last is ">", and   *)
(* starts with prefix + "." or equals prefix iff the segments of prefix    *)
(* are the first segments of it.                                           *)
(***************************************************************************)
EXTENDS Naturals, Sequences

CONSTANTS
  Segment,   \* the segments, "*" and ">" among them
  Starred,   \* the segments that contain the character '*', as "*" and "a*"
  Arrowed,   \* the segments that contain the character '>'
  MaxLen     \* bound on the number of segments that the runs enumerate

ASSUME SegmentConstants ==
  /\ Starred \subseteq Segment /\ Arrowed \subseteq Segment
  /\ "*" \in Starred /\ ">" \in Arrowed
  /\ MaxLen \in Nat \ {0}

Front(p) == SubSeq(p, 1, Len(p) - 1)
Last(p) == p[Len(p)]
Mentions(p, S) == \E i \in 1..Len(p) : p[i] \in S
StartsWith(s, p) == Len(p) <= Len(s) /\ \A i \in 1..Len(p) : s[i] = p[i]

\* The comparison segment by segment that the three functions share.
SegmentsMatch(p, s) == \A i \in 1..Len(p) : p[i] \in {"*", s[i]}

\* strings.HasSuffix(pattern, ".>")
HasMultiSuffix(p) == Len(p) >= 2 /\ Last(p) = ">"

\* Mutant: foo.> asks for at least one segment after foo.
MatchNeedsMore(p, s) ==
  \/ p = s
  \/ HasMultiSuffix(p) /\ StartsWith(s, Front(p)) /\ s # Front(p)
  \/ /\ ~HasMultiSuffix(p)
     /\ Len(p) = Len(s) /\ Mentions(p, {"*"}) /\ SegmentsMatch(p, s)

\* Router.Match
Match(p, s) ==
  \/ p = s
  \/ HasMultiSuffix(p) /\ StartsWith(s, Front(p))
  \/ /\ ~HasMultiSuffix(p)
     /\ Len(p) = Len(s) /\ Mentions(p, {"*"}) /\ SegmentsMatch(p, s)

\* Mutant: the client asks for more segments after foo than the server.
matchSubjectStrict(p, s) ==
  \/ p = s
  \/ HasMultiSuffix(p) /\ StartsWith(s, Front(p)) /\ Len(s) >= Len(p)
  \/ Mentions(p, Starred) /\ Len(p) = Len(s) /\ SegmentsMatch(p, s)

\* matchSubject.  Unlike Router.Match it goes on to the segments when the
\* prefix of a ".>" pattern does not match, and takes any '*' in the pattern
\* as the sign to do so.
matchSubject(p, s) ==
  \/ p = s
  \/ HasMultiSuffix(p) /\ StartsWith(s, Front(p))
  \/ Mentions(p, Starred) /\ Len(p) = Len(s) /\ SegmentsMatch(p, s)

isWildcardPattern(p) == Mentions(p, Starred) \/ Mentions(p, Arrowed)

\* Mutant: the subject may be longer than a pattern without '>'.
matchesSegmentsOpen(p, s) ==
  LET arrow == {i \in 1..Len(p) : p[i] = ">"} IN
  IF arrow = {} THEN Len(s) >= Len(p) /\ SegmentsMatch(p, s)
  ELSE arrow = {Len(p)} /\ Len(s) >= Len(p) /\ SegmentsMatch(Front(p), s)

\* CompiledPattern.matchesSegments: the loop advances pattern and subject
\* together; '>' ends it, successfully only as the last segment and with a
\* subject segment left.
matchesSegments(p, s) ==
  LET arrow == {i \in 1..Len(p) : p[i] = ">"} IN
  IF arrow = {} THEN Len(s) = Len(p) /\ SegmentsMatch(p, s)
  ELSE arrow = {Len(p)} /\ Len(s) >= Len(p) /\ SegmentsMatch(Front(p), s)

\* CompiledPattern.matches.  Without a segment that is a wildcard it compares
\* the subject with the first segment.
matches(p, s) ==
  IF Mentions(p, {"*", ">"}) THEN matchesSegments(p, s) ELSE s = <<p[1]>>

\* How OptimizedRouter.FindSubscribers decides: by key for an exact pattern.
OptimizedMatch(p, s) == IF isWildcardPattern(p) THEN matches(p, s) ELSE p = s

-----------------------------------------------------------------------------
(* The runs enumerate all pairs of a pattern and a subject up to MaxLen. *)

VARIABLES pattern, subject

pairVars == <<pattern, subject>>

PairInit == pattern \in {<<x>> : x \in Segment} /\ subject \in {<<x>> : x \in Segment}

ExtendPattern ==
  /\ Len(pattern) < MaxLen
  /\ \E x \in Segment : pattern' = Append(pattern, x)
  /\ UNCHANGED subject

ExtendSubject ==
  /\ Len(subject) < MaxLen
  /\ \E x \in Segment : subject' = Append(subject, x)
  /\ UNCHANGED pattern

PairNext == ExtendPattern \/ ExtendSubject

PairSpec == PairInit /\ [][PairNext]_pairVars

-----------------------------------------------------------------------------
(* Properties *)

\* Pattern and subject have at least one segment, as after strings.Split.
PairTypeOK ==
  /\ pattern \in Seq(Segment) \ {<<>>}
  /\ subject \in Seq(Segment) \ {<<>>}

\* A message that the server routes to a session because of a subscription
\* (router.go:136) is dispatched by the client to that subscription
\* (client.go:217): the client's matcher accepts all that the server's does,
\* so that no delivered message disappears between the two.
DeliveredIsDispatched == Match(pattern, subject) => matchSubject(pattern, subject)

\* The other way round the two agree unless the subject itself contains the
\* segment ">": a client with several subscriptions does not hand a message
\* to one that the server would not have sent it for.
DispatchedIsSubscribed ==
  matchSubject(pattern, subject) /\ ~Mentions(subject, {">"})
    => Match(pattern, subject)

\* A pattern without '*' and '>' matches itself only, in all three.
LiteralIsExact ==
  ~isWildcardPattern(pattern) =>
    /\ Match(pattern, subject) <=> pattern = subject
    /\ matchSubject(pattern, subject) <=> pattern = subject
    /\ OptimizedMatch(pattern, subject) <=> pattern = subject

\* Patterns whose wildcards are whole segments, with '>' only at the end of a
\* longer pattern and not together with '*'.
Plain(p) ==
  /\ \A i \in 1..Len(p) : p[i] \in Starred \cup Arrowed => p[i] \in {"*", ">"}
  /\ \A i \in 1..Len(p) : p[i] = ">" => i = Len(p) /\ i > 1
  /\ ~(Mentions(p, {"*"}) /\ Mentions(p, {">"}))

\* On plain patterns the two routers route alike, but for the one documented
\* difference: foo.> matches foo in Router (router_test.go:77-81) and not in
\* OptimizedRouter (router_optimized.go:187).
RoutersAgree ==
  Plain(pattern) =>
    \/ Match(pattern, subject) <=> OptimizedMatch(pattern, subject)
    \/ /\ HasMultiSuffix(pattern) /\ subject = Front(pattern)
       /\ Match(pattern, subject) /\ ~OptimizedMatch(pattern, subject)
=============================================================================
