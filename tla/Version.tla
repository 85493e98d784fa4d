------------------------------- MODULE Version -------------------------------
\* Version comparison and release channels (internal/version/compare.go).
\*
\* A tag is the text vMAJOR.MINOR.PATCH[-alphaN|-betaN|-rcN].  Its text is
\* abstracted to what parseTag looks at: the dotted parts before the suffix,
\* the suffix found, and the suffix's number.  A part that strconv.Atoi
\* refuses is Garbled, and so is the number of a suffix.
EXTENDS Integers, Sequences

\* What Atoi returned an error for.  A negative number is refused just the
\* same, so one value stands for both.
Garbled == -1

\* "none" is no suffix at all: a real release.
Stages == {"alpha", "beta", "rc", "none"}

\* A tag's text.  "dev", the placeholder of a local build, has one part.
Texts == [parts : Seq(Int), suffix : Stages, n : Int]
Text(parts, suffix, n) == [parts |-> parts, suffix |-> suffix, n |-> n]
Dev == Text(<<Garbled>>, "none", 0)

\* The stages in the order of their iota; 0 is stageInvalid.
StageOf == [s \in Stages |-> CASE s = "alpha" -> 1 [] s = "beta" -> 2
                                 [] s = "rc" -> 3 [] s = "none" -> 4]

Parsed == [major : Nat, minor : Nat, patch : Nat, stage : 1..4, pre : Nat]

\* parseTag's error, told apart from every parsed tag.
NoParse == [major |-> -1, minor |-> -1, patch |-> -1, stage |-> 0, pre |-> -1]

WellFormed(text) ==
    /\ text.suffix # "none" => text.n > 0
    /\ Len(text.parts) = 3
    /\ \A i \in 1..3 : text.parts[i] >= 0

parseTag(text) ==
    IF WellFormed(text)
    THEN [major |-> text.parts[1], minor |-> text.parts[2],
          patch |-> text.parts[3], stage |-> StageOf[text.suffix],
          pre |-> IF text.suffix = "none" THEN 0 ELSE text.n]
    ELSE NoParse

cmpInt(a, b) == IF a < b THEN -1 ELSE IF a > b THEN 1 ELSE 0

\* Compare of two tags that parsed: the first field that differs decides.
Order(a, b) ==
    CASE a.major # b.major -> cmpInt(a.major, b.major)
      [] a.major = b.major /\ a.minor # b.minor -> cmpInt(a.minor, b.minor)
      [] a.major = b.major /\ a.minor = b.minor /\ a.patch # b.patch ->
            cmpInt(a.patch, b.patch)
      [] OTHER -> IF a.stage # b.stage THEN cmpInt(a.stage, b.stage)
                                       ELSE cmpInt(a.pre, b.pre)

\* Compare fails for a text that does not parse; callers fail closed on it.
Comparable(v, w) == parseTag(v) # NoParse /\ parseTag(w) # NoParse
Compare(v, w) == Order(parseTag(v), parseTag(w))

IsPreRelease(v) == parseTag(v) # NoParse /\ parseTag(v).stage # 4

Channels == {"alpha", "beta", "rc", "release"}

\* The least stage a channel accepts (parseChannel); 0 is its error.
parseChannel(channel) ==
    CASE channel = "alpha" -> 1 [] channel = "beta" -> 2
      [] channel = "rc" -> 3 [] channel = "release" -> 4 [] OTHER -> 0

ValidChannel(channel) == parseChannel(channel) # 0

\* FALSE stands for the errors too: every caller skips the tag on either.
MeetsChannel(v, channel) ==
    /\ parseTag(v) # NoParse
    /\ ValidChannel(channel)
    /\ parseTag(v).stage >= parseChannel(channel)
=============================================================================
