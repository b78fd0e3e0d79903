------------------------------ MODULE GatewayProofs ------------------------------
(* The workers of the gateway and what the camera was made to do, for any       *)
(* number of callers and of messages.                                           *)
EXTENDS Gateway, TLAPS

ProgramsKnown == Programs \subseteq {"gbSvr", "hi3556"}

Verbs == {"login", "talk", "start", "stop", "join", "want", "forget", "release"}
Objects == {"on", "off"} \cup Streams \cup Users
Pairs == Verbs \X Objects

WantsReal == {<<"want", "real">>}
WantsAny == {<<"want", "real">>, <<"want", "talk">>}
Forgets == {<<"forget", "real">>, <<"forget", "talk">>}
VideoHalts == {<<"stop", "video">>, <<"join", "video">>}
AudioHalts == {<<"stop", "audio">>, <<"join", "audio">>}
Ending == AudioHalts \cup {<<"release", "audio">>}
Follows(s, i, calls) == \E j \in i + 1..Len(s) : s[j] \in calls

\* What every script keeps to, at any point: a start is followed by the want of a
\* user, a forget by the release, the video worker is gone when "real" is forgotten,
\* and only the next call can be a stop or a join.
Proper(s) ==
  /\ s \in Seq(Pairs)
  /\ \A i \in 1..Len(s) :
       /\ s[i] = <<"start", "video">> => Follows(s, i, WantsReal)
       /\ s[i] = <<"start", "audio">> => Follows(s, i, WantsAny)
       /\ s[i] \in Forgets => Follows(s, i, Ending)
       /\ i > 1 => s[i] \notin VideoHalts \cup AudioHalts
       /\ (i > 1 /\ s[i] = <<"forget", "real">>) => s[i - 1] \in VideoHalts

LEMMA OneProper ==
  ASSUME NEW s, NEW a \in Pairs, s = <<a>>,
         a \notin {<<"start", "video">>, <<"start", "audio">>} \cup Forgets
  PROVE  Proper(s) /\ s # <<>> /\ s[1] = a
PROOF
<1>1. s \in Seq(Pairs) /\ Len(s) = 1 /\ s[1] = a OBVIOUS
<1>2. \A i \in 1..Len(s) : i = 1 BY <1>1
<1> QED BY <1>1, <1>2 DEF Proper

LEMMA ThreeProper ==
  ASSUME NEW s, NEW a \in Pairs, NEW b \in Pairs, NEW c \in Pairs, s = <<a, b, c>>,
         b \notin VideoHalts \cup AudioHalts, c \notin VideoHalts \cup AudioHalts,
         a = <<"start", "video">> => c \in WantsReal,
         <<"start", "audio">> \in {a, b} => c \in WantsAny,
         b # <<"start", "video">>, c \notin {<<"start", "video">>, <<"start", "audio">>},
         a \notin Forgets, b \in Forgets => c \in Ending, c \notin Forgets,
         b = <<"forget", "real">> => a = <<"stop", "video">>
  PROVE  Proper(s) /\ s # <<>> /\ s[1] = a
PROOF
<1>1. s \in Seq(Pairs) /\ Len(s) = 3 /\ s[1] = a /\ s[2] = b /\ s[3] = c OBVIOUS
<1>2. \A calls : c \in calls => Follows(s, 1, calls) /\ Follows(s, 2, calls)
  BY <1>1 DEF Follows
<1>3. ASSUME NEW i \in 1..Len(s)
      PROVE  /\ s[i] = <<"start", "video">> => Follows(s, i, WantsReal)
             /\ s[i] = <<"start", "audio">> => Follows(s, i, WantsAny)
             /\ s[i] \in Forgets => Follows(s, i, Ending)
             /\ i > 1 => s[i] \notin VideoHalts \cup AudioHalts
             /\ (i > 1 /\ s[i] = <<"forget", "real">>) => s[i - 1] \in VideoHalts
  <2>1. CASE i = 1 BY <1>1, <1>2, <2>1
  <2>2. CASE i = 2 BY <1>1, <1>2, <2>2 DEF VideoHalts
  <2>3. CASE i = 3 BY <1>1, <1>2, <2>3 DEF Forgets
  <2> QED BY <1>1, <2>1, <2>2, <2>3
<1> QED BY <1>1, <1>3 DEF Proper

LEMMA ScriptsProper ==
  ASSUME NEW p \in {"gbSvr", "hi3556"}, NEW m \in Messages
  PROVE  /\ Proper(Script[p][m]) /\ Script[p][m] # <<>>
         /\ Script[p][m][1] # <<"forget", "real">> /\ Script[p][m][1] \notin AudioHalts
PROOF
<1> USE DEF Pairs, Verbs, Objects, Streams, Users, WantsReal, WantsAny, Forgets, VideoHalts,
            AudioHalts, Ending
<1>1. m \in {"online", "offline", "startReal", "stopReal", "startTalk", "stopTalk"}
  BY DEF Messages, GbSvrCallback
<1>2. CASE m \in {"online", "offline"}
  <2>1. PICK x \in {"on", "off"} : Script[p][m] = << <<"login", x>> >>
    BY <1>2 DEF Script, GbSvrCallback, Hi3556Callback
  <2> QED BY <2>1, OneProper
<1>3. CASE m = "startReal"
  <2>1. Script[p][m] = << <<"start", "video">>, <<"start", "audio">>, <<"want", "real">> >>
    BY <1>3 DEF Script, GbSvrCallback, Hi3556Callback
  <2> QED BY <2>1, ThreeProper
<1>4. CASE m = "stopReal"
  <2>1. Script[p][m] = << <<"stop", "video">>, <<"forget", "real">>, <<"release", "audio">> >>
    BY <1>4 DEF Script, GbSvrCallback, Hi3556Callback
  <2> QED BY <2>1, ThreeProper
<1>5. CASE m = "startTalk"
  <2>1. CASE p = "gbSvr"
    <3>1. Script[p][m] = << <<"talk", "on">>, <<"start", "audio">>, <<"want", "talk">> >>
      BY <1>5, <2>1 DEF Script, GbSvrCallback
    <3> QED BY <3>1, ThreeProper
  <2>2. CASE p = "hi3556"
    <3>1. Script[p][m] = << <<"start", "audio">>, <<"talk", "on">>, <<"want", "talk">> >>
      BY <1>5, <2>2 DEF Script, Hi3556Callback
    <3> QED BY <3>1, ThreeProper
  <2> QED BY <2>1, <2>2
<1>6. CASE m = "stopTalk"
  <2>1. CASE p = "gbSvr"
    <3>1. Script[p][m] = << <<"talk", "off">>, <<"forget", "talk">>, <<"release", "audio">> >>
      BY <1>6, <2>1 DEF Script, GbSvrCallback
    <3> QED BY <3>1, ThreeProper
  <2>2. CASE p = "hi3556"
    <3> DEFINE s == Script[p][m]
    <3>1. s = << <<"forget", "talk">>, <<"release", "audio">> >>
      BY <1>6, <2>2 DEF Script, Hi3556Callback
    <3> HIDE DEF s
    <3>2. s \in Seq(Pairs) /\ Len(s) = 2 BY <3>1
    <3>3. s[1] = <<"forget", "talk">> /\ s[2] = <<"release", "audio">> BY <3>1
    <3>4. Follows(s, 1, Ending) BY <3>2, <3>3 DEF Follows
    <3>5. \A i \in 1..Len(s) : i = 1 \/ i = 2 BY <3>2
    <3>6. Proper(s) BY <3>2, <3>3, <3>4, <3>5 DEF Proper
    <3> QED BY <3>2, <3>3, <3>6 DEF s
  <2> QED BY <2>1, <2>2
<1> QED BY <1>1, <1>2, <1>3, <1>4, <1>5, <1>6

\* The call after the first one becomes the first, and what follows keeps following.
LEMMA TailProper ==
  ASSUME NEW s, Proper(s), s # <<>>
  PROVE  /\ Proper(Tail(s)) /\ Len(Tail(s)) = Len(s) - 1 /\ Len(s) \in Nat
         /\ \A i \in 1..Len(Tail(s)) : Tail(s)[i] = s[i + 1] /\ i + 1 \in 1..Len(s)
PROOF
<1>1. s \in Seq(Pairs) BY DEF Proper
<1>2. /\ Tail(s) \in Seq(Pairs) /\ Len(Tail(s)) = Len(s) - 1 /\ Len(s) \in Nat
      /\ Len(s) >= 1
      /\ \A i \in 1..Len(Tail(s)) : Tail(s)[i] = s[i + 1] /\ i + 1 \in 1..Len(s)
  BY <1>1
<1>3. ASSUME NEW i \in 1..Len(Tail(s)), NEW calls, Follows(s, i + 1, calls)
      PROVE  Follows(Tail(s), i, calls)
  <2>1. PICK j \in i + 2..Len(s) : s[j] \in calls BY <1>2, <1>3 DEF Follows
  <2>2. j - 1 \in i + 1..Len(Tail(s)) /\ j - 1 \in 1..Len(Tail(s)) BY <1>2, <2>1
  <2>3. Tail(s)[j - 1] = s[j] BY <1>2, <2>2
  <2> QED BY <2>1, <2>2, <2>3 DEF Follows
<1>4. ASSUME NEW i \in 1..Len(Tail(s))
      PROVE  /\ Tail(s)[i] = <<"start", "video">> => Follows(Tail(s), i, WantsReal)
             /\ Tail(s)[i] = <<"start", "audio">> => Follows(Tail(s), i, WantsAny)
             /\ Tail(s)[i] \in Forgets => Follows(Tail(s), i, Ending)
             /\ i > 1 => Tail(s)[i] \notin VideoHalts \cup AudioHalts
             /\ (i > 1 /\ Tail(s)[i] = <<"forget", "real">>) => Tail(s)[i - 1] \in VideoHalts
  <2>1. Tail(s)[i] = s[i + 1] /\ i + 1 \in 1..Len(s) /\ i + 1 > 1 BY <1>2
  <2>2. i > 1 => Tail(s)[i - 1] = s[i] BY <1>2
  <2> QED BY <1>3, <2>1, <2>2 DEF Proper
<1> QED BY <1>2, <1>4 DEF Proper

LEMMA HeadReplaced ==
  ASSUME NEW s, Proper(s), s # <<>>, NEW x \in VideoHalts \cup AudioHalts,
         s[1] \in VideoHalts => x \in VideoHalts
  PROVE  LET t == <<x>> \o Tail(s) IN
         /\ Proper(t) /\ Len(t) = Len(s) /\ t # <<>> /\ t[1] = x
         /\ \A i \in 2..Len(s) : t[i] = s[i]
PROOF
<1>1. PICK t : t = <<x>> \o Tail(s) OBVIOUS
<1>2. s \in Seq(Pairs) /\ x \in Pairs
  BY DEF Proper, VideoHalts, AudioHalts, Pairs, Verbs, Objects, Streams
<1>3. Tail(s) \in Seq(Pairs) /\ Len(Tail(s)) = Len(s) - 1 /\ Len(s) \in Nat /\ Len(s) >= 1
      /\ \A i \in 1..Len(Tail(s)) : Tail(s)[i] = s[i + 1]
  BY <1>2
<1>4. t \in Seq(Pairs) /\ Len(t) = Len(s) /\ t[1] = x
  BY <1>1, <1>2, <1>3
<1>5. \A i \in 2..Len(s) : t[i] = s[i]
  BY <1>1, <1>2, <1>3
<1>6. \A calls : \A i \in 1..Len(s) : Follows(s, i, calls) => Follows(t, i, calls)
  BY <1>3, <1>4, <1>5 DEF Follows
<1>7. x \notin {<<"start", "video">>, <<"start", "audio">>} \cup Forgets
  BY DEF VideoHalts, AudioHalts, Forgets
<1>8. ASSUME NEW i \in 1..Len(t)
      PROVE  /\ t[i] = <<"start", "video">> => Follows(t, i, WantsReal)
             /\ t[i] = <<"start", "audio">> => Follows(t, i, WantsAny)
             /\ t[i] \in Forgets => Follows(t, i, Ending)
             /\ i > 1 => t[i] \notin VideoHalts \cup AudioHalts
             /\ (i > 1 /\ t[i] = <<"forget", "real">>) => t[i - 1] \in VideoHalts
  <2>1. CASE i = 1
    <3>1. t[i] = x /\ ~(i > 1) BY <1>4, <2>1
    <3>2. x # <<"start", "video">> /\ x # <<"start", "audio">> /\ x \notin Forgets BY <1>7
    <3> QED BY <3>1, <3>2
  <2>2. CASE i > 1
    <3>1. i \in 2..Len(s) /\ i \in 1..Len(s) /\ t[i] = s[i] BY <1>3, <1>4, <1>5, <2>2
    <3>2. i - 1 = 1 \/ t[i - 1] = s[i - 1] BY <1>3, <1>4, <1>5, <2>2, <3>1
    <3> QED BY <1>4, <1>6, <2>2, <3>1, <3>2 DEF Proper
  <2> QED BY <1>3, <1>4, <2>1, <2>2
<1>9. Proper(t) /\ t # <<>> BY <1>3, <1>4, <1>8 DEF Proper
<1> QED BY <1>1, <1>4, <1>5, <1>9

-------------------------------------------------------------------------------
(* The invariant, as long as the callers come one at a time *)

Ahead(c, calls) == Follows(todo[c], 0, calls)
Next1(c, calls) == todo[c] # <<>> /\ todo[c][1] \in calls

Shape ==
  /\ program \in {"gbSvr", "hi3556"} /\ raced \in BOOLEAN
  /\ wants \subseteq Users /\ alive \subseteq Streams
  /\ DOMAIN todo = Callers /\ \A c \in Callers : Proper(todo[c])
Solo == \A c, d \in Callers : c # d => Idle(c) \/ Idle(d)

\* A worker nobody wants any more has its end, or its user, still ahead.
VideoKept ==
  ("video" \in alive /\ "real" \notin wants) => \E c \in Callers : Ahead(c, WantsReal)
AudioKept ==
  ("audio" \in alive /\ wants = {}) => \E c \in Callers : Ahead(c, WantsAny \cup Ending)
RealGone == \A c \in Callers : Next1(c, {<<"forget", "real">>}) => "video" \notin alive
NoneLeft == \A c \in Callers : Next1(c, AudioHalts) => wants = {}

Orderly == Solo /\ VideoKept /\ AudioKept /\ RealGone /\ NoneLeft
Served == Shape /\ (~raced => Orderly)

LEMMA ServedInit == ASSUME ProgramsKnown, Init PROVE Served
PROOF
<1>1. Proper(<<>>) BY DEF Proper
<1>2. Shape BY <1>1 DEF Init, Shape, ProgramsKnown
<1>3. Orderly
  BY DEF Init, Orderly, Solo, VideoKept, AudioKept, RealGone, NoneLeft, Next1, Idle
<1> QED BY <1>2, <1>3 DEF Served

LEMMA ServedMeans == Served => NoWorkerUnwanted
PROOF
<1> SUFFICES ASSUME Served, ~raced, \A c \in Callers : todo[c] = <<>>
             PROVE  /\ wants = {} => "audio" \notin alive
                    /\ "real" \notin wants => "video" \notin alive
  BY DEF NoWorkerUnwanted, Settled, Idle
<1>1. \A c \in Callers : \A calls : ~Ahead(c, calls)
  BY DEF Ahead, Follows
<1> QED BY <1>1 DEF Served, Orderly, VideoKept, AudioKept

\* A step that takes no call and at most ends workers.
LEMMA WorkersFewer ==
  ASSUME Served, UNCHANGED <<program, todo, wants, raced>>, alive' \subseteq alive
  PROVE  Served'
PROOF
<1>1. Shape' BY DEF Served, Shape
<1>2. Orderly => Orderly'
  BY DEF Orderly, Solo, VideoKept, AudioKept, RealGone, NoneLeft, Ahead, Next1, Idle
<1> QED BY <1>1, <1>2 DEF Served

\* When c has made its next call: what is ahead of it was ahead of it, and the other
\* callers had and have nothing to do.
LEMMA CallMade ==
  ASSUME Served, ~raced, NEW c \in Callers, todo[c] # <<>>, Done(c)
  PROVE  /\ Proper(todo[c]) /\ Proper(todo'[c]) /\ DOMAIN todo' = Callers
         /\ \A d \in Callers \ {c} : todo[d] = <<>> /\ todo'[d] = <<>>
         /\ \A calls : Follows(todo[c], 1, calls) => Follows(todo'[c], 0, calls)
         /\ \A calls : Follows(todo[c], 0, calls) =>
              todo[c][1] \in calls \/ Follows(todo'[c], 0, calls)
         /\ todo'[c] # <<>> => todo'[c][1] \notin VideoHalts \cup AudioHalts
         /\ (todo'[c] # <<>> /\ todo'[c][1] = <<"forget", "real">>) => todo[c][1] \in VideoHalts
PROOF
<1> DEFINE s == todo[c]
           t == todo'[c]
<1>1. t = Tail(s) /\ DOMAIN todo' = Callers /\ \A d \in Callers \ {c} : todo'[d] = todo[d]
  BY DEF Done, Served, Shape
<1>2. Proper(s) BY DEF Served, Shape
<1>3. \A d \in Callers \ {c} : todo[d] = <<>> BY DEF Served, Orderly, Solo, Idle
<1>4. /\ Proper(t) /\ Len(t) = Len(s) - 1 /\ Len(s) \in Nat
      /\ \A i \in 1..Len(t) : t[i] = s[i + 1] /\ i + 1 \in 1..Len(s)
  BY <1>1, <1>2, TailProper
<1> HIDE DEF s, t
<1>5. ASSUME NEW calls, NEW j \in 1..Len(s), s[j] \in calls, j # 1
      PROVE  Follows(t, 0, calls)
  <2>1. j - 1 \in 1..Len(t) /\ t[j - 1] = s[j] BY <1>4, <1>5
  <2> QED BY <1>5, <2>1 DEF Follows
<1>6. \A calls : Follows(s, 1, calls) => Follows(t, 0, calls)
  BY <1>4, <1>5 DEF Follows
<1>7. \A calls : Follows(s, 0, calls) => s[1] \in calls \/ Follows(t, 0, calls)
  BY <1>4, <1>5 DEF Follows
<1>8. ASSUME t # <<>>
      PROVE  /\ t[1] \notin VideoHalts \cup AudioHalts
             /\ t[1] = <<"forget", "real">> => s[1] \in VideoHalts
  <2>1. 1 \in 1..Len(t) BY <1>4, <1>8 DEF Proper
  <2>2. t[1] = s[2] /\ 2 \in 1..Len(s) BY <1>4, <2>1
  <2> QED BY <1>2, <2>2 DEF Proper
<1> QED BY <1>1, <1>2, <1>3, <1>4, <1>6, <1>7, <1>8 DEF s, t

\* With one caller at work, what is ahead is ahead of that caller.
LEMMA AheadOfCaller ==
  ASSUME Served, ~raced, NEW c \in Callers, todo[c] # <<>>
  PROVE  /\ ("video" \in alive /\ "real" \notin wants) => Follows(todo[c], 0, WantsReal)
         /\ ("audio" \in alive /\ wants = {}) => Follows(todo[c], 0, WantsAny \cup Ending)
PROOF
<1>1. ASSUME NEW d \in Callers, NEW calls, Ahead(d, calls) PROVE Follows(todo[c], 0, calls)
  <2>1. todo[d] # <<>> BY <1>1 DEF Ahead, Follows
  <2>2. d = c BY <2>1 DEF Served, Orderly, Solo, Idle
  <2> QED BY <1>1, <2>2 DEF Ahead
<1> QED BY <1>1 DEF Served, Orderly, VideoKept, AudioKept

LEMMA CallKeeps ==
  ASSUME Served, NEW c \in Callers, todo[c] # <<>>, Done(c), UNCHANGED <<program, raced>>,
         wants' \subseteq Users, alive' \subseteq Streams,
         ~raced => /\ ("video" \in alive' /\ "real" \notin wants') =>
                        Follows(todo'[c], 0, WantsReal)
                   /\ ("audio" \in alive' /\ wants' = {}) =>
                        Follows(todo'[c], 0, WantsAny \cup Ending)
                   /\ todo[c][1] \in VideoHalts => "video" \notin alive'
  PROVE  Served'
PROOF
<1>1. Proper(Tail(todo[c])) BY TailProper DEF Served, Shape
<1>2. \A d \in Callers : todo'[d] = IF d = c THEN Tail(todo[c]) ELSE todo[d]
  BY DEF Done, Served, Shape
<1>3. Shape' BY <1>1, <1>2 DEF Done, Served, Shape
<1>4. ASSUME ~raced PROVE Orderly'
  <2>1. /\ \A d \in Callers \ {c} : todo'[d] = <<>>
        /\ todo'[c] # <<>> => todo'[c][1] \notin VideoHalts \cup AudioHalts
        /\ (todo'[c] # <<>> /\ todo'[c][1] = <<"forget", "real">>) => todo[c][1] \in VideoHalts
    BY <1>4, CallMade
  <2>2. Solo' BY <2>1 DEF Solo, Idle
  <2>3. VideoKept' /\ AudioKept' BY <1>4 DEF VideoKept, AudioKept, Ahead
  <2>4. RealGone' BY <1>4, <2>1 DEF RealGone, Next1
  <2>5. NoneLeft' BY <2>1 DEF NoneLeft, Next1
  <2> QED BY <2>2, <2>3, <2>4, <2>5 DEF Orderly
<1> QED BY <1>3, <1>4 DEF Served

LEMMA ChangeKeeps ==
  ASSUME Served, NEW c \in Callers, todo[c] # <<>>, NEW x \in VideoHalts \cup AudioHalts,
         Becomes(c, x), UNCHANGED <<program, raced, wants, alive>>,
         todo[c][1] \in VideoHalts \cup Ending, todo[c][1] \in VideoHalts <=> x \in VideoHalts,
         ~raced /\ x \in AudioHalts => wants = {}
  PROVE  Served'
PROOF
<1> DEFINE s == todo[c]
           t == todo'[c]
<1>1. t = <<x>> \o Tail(s) /\ DOMAIN todo' = Callers
      /\ \A d \in Callers \ {c} : todo'[d] = todo[d]
  BY DEF Becomes, Served, Shape
<1>2. Proper(s) BY DEF Served, Shape
<1>3. /\ Proper(t) /\ Len(t) = Len(s) /\ t # <<>> /\ t[1] = x
      /\ \A i \in 2..Len(s) : t[i] = s[i]
  BY <1>1, <1>2, HeadReplaced
<1>4. Shape' BY <1>1, <1>3 DEF Served, Shape
<1>5. ASSUME ~raced PROVE Orderly'
  <2>1. \A d \in Callers \ {c} : todo[d] = <<>> /\ todo'[d] = <<>>
    BY <1>1, <1>5 DEF Served, Orderly, Solo, Idle
  <2>2. Solo' BY <2>1 DEF Solo, Idle
  <2> HIDE DEF s, t
  <2>3. Len(s) \in Nat BY <1>2 DEF Proper
  <2>4. s[1] \in VideoHalts \cup Ending BY DEF s
  <2>5. s[1] \notin WantsReal /\ s[1] \notin WantsAny
    BY <2>4 DEF WantsReal, WantsAny, VideoHalts, Ending, AudioHalts
  <2>6. Follows(s, 0, WantsReal) => Follows(t, 0, WantsReal)
    BY <1>3, <2>3, <2>5 DEF Follows
  <2>7. x \in AudioHalts \/ s[1] \notin Ending
    <3>1. VideoHalts \cap Ending = {} BY DEF VideoHalts, Ending, AudioHalts
    <3> QED BY <3>1 DEF s
  <2>8. Follows(s, 0, WantsAny \cup Ending) => Follows(t, 0, WantsAny \cup Ending)
    <3>1. CASE x \in AudioHalts
      <4>1. 1 \in 1..Len(t) BY <1>3, <2>3 DEF Proper
      <4> QED BY <1>3, <3>1, <4>1 DEF Follows, Ending
    <3>2. CASE s[1] \notin Ending
      BY <1>3, <2>3, <2>5, <3>2 DEF Follows
    <3> QED BY <2>7, <3>1, <3>2
  <2>9. VideoKept' /\ AudioKept'
    BY <1>5, <2>6, <2>8, AheadOfCaller DEF VideoKept, AudioKept, Ahead, s, t
  <2>10. RealGone'
    <3>1. x # <<"forget", "real">> BY DEF VideoHalts, AudioHalts
    <3> QED BY <1>3, <2>1, <3>1 DEF RealGone, Next1, t
  <2>11. NoneLeft' BY <1>3, <1>5, <2>1 DEF NoneLeft, Next1, t
  <2> QED BY <2>2, <2>9, <2>10, <2>11 DEF Orderly
<1> QED BY <1>4, <1>5 DEF Served

LEMMA DeliverKeeps ==
  ASSUME ProgramsKnown, Served, NEW c \in Callers, Deliver(c) PROVE Served'
PROOF
<1>1. PICK m \in Messages : todo' = [todo EXCEPT ![c] = Script[program][m]]
  BY DEF Deliver
<1>2. /\ todo[c] = <<>> /\ UNCHANGED <<program, wants, alive>>
      /\ raced' = (raced \/ \E d \in Callers : ~Idle(d))
  BY DEF Deliver, Idle
<1> DEFINE t == Script[program][m]
<1>3. /\ Proper(t) /\ t # <<>>
      /\ t[1] # <<"forget", "real">> /\ t[1] \notin AudioHalts
  BY ScriptsProper DEF Served, Shape
<1> HIDE DEF t
<1>4. DOMAIN todo' = Callers /\ \A d \in Callers : todo'[d] = IF d = c THEN t ELSE todo[d]
  BY <1>1 DEF Served, Shape, t
<1>5. Shape' BY <1>2, <1>3, <1>4 DEF Served, Shape
<1>6. ASSUME ~raced' PROVE Orderly'
  <2>1. ~raced /\ \A d \in Callers : todo[d] = <<>> BY <1>2, <1>6 DEF Idle
  <2>2. \A d \in Callers \ {c} : todo'[d] = <<>> BY <1>4, <2>1
  <2>3. todo'[c] = t BY <1>4
  <2>4. Solo' BY <2>2 DEF Solo, Idle
  <2>5. \A d \in Callers : \A calls : ~Ahead(d, calls) BY <2>1 DEF Ahead, Follows
  <2>6. VideoKept' /\ AudioKept'
    BY <1>2, <2>1, <2>5 DEF Served, Orderly, VideoKept, AudioKept
  <2>7. RealGone' BY <1>3, <2>2, <2>3 DEF RealGone, Next1
  <2>8. NoneLeft' BY <1>3, <2>2, <2>3 DEF NoneLeft, Next1
  <2> QED BY <2>4, <2>6, <2>7, <2>8 DEF Orderly
<1> QED BY <1>5, <1>6 DEF Served

LEMMA CallbackKeeps ==
  ASSUME Served, NEW c \in Callers, CallbackStep(c) PROVE Served'
PROOF
<1> DEFINE k == todo[c][1]
<1>0. wants \subseteq Users /\ alive \subseteq Streams /\ Proper(todo[c])
  BY DEF Served, Shape
<1>s. ASSUME todo[c] # <<>>
      PROVE  /\ 1 \in 1..Len(todo[c])
             /\ k = <<"start", "video">> => Follows(todo[c], 1, WantsReal)
             /\ k = <<"start", "audio">> => Follows(todo[c], 1, WantsAny)
             /\ k \in Forgets => Follows(todo[c], 1, Ending)
  <2>1. 1 \in 1..Len(todo[c]) BY <1>0, <1>s DEF Proper
  <2> QED BY <1>0, <2>1 DEF Proper
<1>f. \A s, A, B : Follows(s, 0, A) => Follows(s, 0, A \cup B) /\ Follows(s, 0, B \cup A)
  BY DEF Follows
\* What is ahead and is not the call itself stays ahead.
<1>a. ASSUME ~raced, todo[c] # <<>>, Done(c)
      PROVE  /\ \A calls : Follows(todo[c], 1, calls) => Follows(todo'[c], 0, calls)
             /\ ("video" \in alive /\ "real" \notin wants /\ k \notin WantsReal) =>
                  Follows(todo'[c], 0, WantsReal)
             /\ ("audio" \in alive /\ wants = {} /\ k \notin WantsAny \cup Ending) =>
                  Follows(todo'[c], 0, WantsAny \cup Ending)
  BY <1>a, CallMade, AheadOfCaller
<1> HIDE DEF k
<1> USE DEF WantsReal, WantsAny, Forgets, VideoHalts, AudioHalts, Ending
<1>1. CASE Requests(c)
  <2>1. PICK order \in {"login", "talk"}, on \in {"on", "off"} : Calls(c, <<order, on>>)
    BY <1>1 DEF Requests
  <2>2. todo[c] # <<>> /\ k = <<order, on>> BY <2>1 DEF Calls, k
  <2>3. Done(c) /\ UNCHANGED <<program, raced, wants, alive>> BY <1>1 DEF Requests
  <2>4. k \notin VideoHalts /\ k \notin WantsReal /\ k \notin WantsAny \cup Ending BY <2>2
  <2> QED BY <1>0, <1>a, <2>2, <2>3, <2>4, CallKeeps DEF k
<1>2. CASE Starts(c)
  <2>1. PICK s \in Streams : Calls(c, <<"start", s>>) /\ alive' = alive \cup {s}
    BY <1>2 DEF Starts
  <2>2. todo[c] # <<>> /\ k = <<"start", s>> BY <2>1 DEF Calls, k
  <2>3. Done(c) /\ UNCHANGED <<program, raced, wants>> BY <1>2 DEF Starts
  <2>4. k \notin VideoHalts /\ k \notin WantsReal /\ k \notin WantsAny \cup Ending BY <2>2
  <2>5. ASSUME ~raced, "video" \in alive', "real" \notin wants
        PROVE  Follows(todo'[c], 0, WantsReal)
    <3>1. CASE s = "video" BY <1>a, <1>s, <2>2, <2>3, <2>5, <3>1
    <3>2. CASE s = "audio" BY <1>a, <2>1, <2>2, <2>3, <2>4, <2>5, <3>2
    <3> QED BY <3>1, <3>2 DEF Streams
  <2>6. ASSUME ~raced, "audio" \in alive', wants = {}
        PROVE  Follows(todo'[c], 0, WantsAny \cup Ending)
    <3>1. CASE s = "audio" BY <1>a, <1>f, <1>s, <2>2, <2>3, <2>6, <3>1
    <3>2. CASE s = "video" BY <1>a, <2>1, <2>2, <2>3, <2>4, <2>6, <3>2
    <3> QED BY <3>1, <3>2 DEF Streams
  <2>7. alive' \subseteq Streams BY <1>0, <2>1
  <2> QED BY <1>0, <2>2, <2>3, <2>4, <2>5, <2>6, <2>7, CallKeeps DEF k
<1>3. CASE Stops(c)
  <2>1. PICK s \in Streams : Calls(c, <<"stop", s>>) /\ Becomes(c, <<"join", s>>)
    BY <1>3 DEF Stops
  <2>2. todo[c] # <<>> /\ todo[c][1] = <<"stop", s>> BY <2>1 DEF Calls
  <2>3. UNCHANGED <<program, raced, wants, alive>> BY <1>3 DEF Stops
  <2>4. CASE s = "video"
    BY <2>1, <2>2, <2>3, <2>4, ChangeKeeps
  <2>5. CASE s = "audio"
    <3>1. ~raced => wants = {}
      BY <2>2, <2>5 DEF Served, Orderly, NoneLeft, Next1
    <3> QED BY <2>1, <2>2, <2>3, <2>5, <3>1, ChangeKeeps
  <2> QED BY <2>4, <2>5 DEF Streams
<1>4. CASE Joins(c)
  <2>1. PICK s \in Streams : Calls(c, <<"join", s>>) /\ alive' = alive \ {s}
    BY <1>4 DEF Joins
  <2>2. todo[c] # <<>> /\ k = <<"join", s>> BY <2>1 DEF Calls, k
  <2>3. Done(c) /\ UNCHANGED <<program, raced, wants>> BY <1>4 DEF Joins
  <2>4. k \notin WantsReal /\ (s = "video" => k \notin WantsAny \cup Ending) BY <2>2
  <2>5. k \in VideoHalts => "video" \notin alive' BY <2>1, <2>2
  <2>6. ASSUME ~raced, "video" \in alive', "real" \notin wants
        PROVE  Follows(todo'[c], 0, WantsReal)
    BY <1>a, <2>1, <2>2, <2>3, <2>4, <2>6
  <2>7. ASSUME ~raced, "audio" \in alive', wants = {}
        PROVE  Follows(todo'[c], 0, WantsAny \cup Ending)
    <3>1. s = "video" /\ "audio" \in alive BY <2>1, <2>7 DEF Streams
    <3> QED BY <1>a, <2>2, <2>3, <2>4, <2>7, <3>1
  <2>8. alive' \subseteq Streams BY <1>0, <2>1
  <2> QED BY <1>0, <2>2, <2>3, <2>5, <2>6, <2>7, <2>8, CallKeeps DEF k
<1>5. CASE Flags(c)
  <2>1. Done(c) /\ UNCHANGED <<program, raced, alive>> BY <1>5 DEF Flags
  <2>2. PICK u \in Users :
          \/ Calls(c, <<"want", u>>) /\ wants' = wants \cup {u}
          \/ Calls(c, <<"forget", u>>) /\ wants' = wants \ {u}
    BY <1>5 DEF Flags
  <2>3. wants' \subseteq Users BY <1>0, <2>2
  <2>4. CASE Calls(c, <<"want", u>>) /\ wants' = wants \cup {u}
    <3>1. todo[c] # <<>> /\ k = <<"want", u>> /\ k \notin VideoHalts BY <2>4 DEF Calls, k
    <3>2. ASSUME ~raced, "video" \in alive, "real" \notin wants'
          PROVE  Follows(todo'[c], 0, WantsReal)
      <4>1. u = "talk" /\ "real" \notin wants BY <2>4, <3>2 DEF Users
      <4>2. k \notin WantsReal BY <3>1, <4>1
      <4> QED BY <1>a, <2>1, <3>1, <3>2, <4>1, <4>2
    <3>3. wants' # {} BY <2>4
    <3> QED BY <1>0, <2>1, <2>3, <3>1, <3>2, <3>3, CallKeeps DEF k
  <2>5. CASE Calls(c, <<"forget", u>>) /\ wants' = wants \ {u}
    <3>1. todo[c] # <<>> /\ k = <<"forget", u>> BY <2>5 DEF Calls, k
    <3>2. k \notin VideoHalts /\ k \notin WantsReal /\ k \in Forgets BY <3>1 DEF Users
    <3>3. ASSUME ~raced, "video" \in alive, "real" \notin wants'
          PROVE  Follows(todo'[c], 0, WantsReal)
      <4>1. CASE u = "real"
        BY <3>1, <3>3, <4>1 DEF Served, Orderly, RealGone, Next1, k
      <4>2. CASE u = "talk"
        BY <1>a, <2>1, <2>5, <3>1, <3>2, <3>3, <4>2
      <4> QED BY <4>1, <4>2 DEF Users
    <3>4. ~raced => Follows(todo'[c], 0, WantsAny \cup Ending)
      BY <1>a, <1>f, <1>s, <2>1, <3>1, <3>2
    <3> QED BY <1>0, <2>1, <2>3, <3>1, <3>2, <3>3, <3>4, CallKeeps DEF k
  <2> QED BY <2>2, <2>4, <2>5
<1>6. CASE Releases(c)
  <2>1. /\ todo[c] # <<>> /\ k = <<"release", "audio">>
        /\ UNCHANGED <<program, raced, wants, alive>>
    BY <1>6 DEF Releases, Calls, k
  <2>2. k \in Ending /\ k \notin VideoHalts /\ k \notin WantsReal BY <2>1
  <2>3. CASE wants = {}
    <3>1. Becomes(c, <<"stop", "audio">>) BY <1>6, <2>3 DEF Releases
    <3> QED BY <2>1, <2>2, <2>3, <3>1, ChangeKeeps DEF k
  <2>4. CASE wants # {}
    <3>1. Done(c) BY <1>6, <2>4 DEF Releases
    <3> QED BY <1>0, <1>a, <2>1, <2>2, <2>4, <3>1, CallKeeps DEF k
  <2> QED BY <2>3, <2>4
<1> QED BY <1>1, <1>2, <1>3, <1>4, <1>5, <1>6 DEF CallbackStep

LEMMA ServedStep == ASSUME ProgramsKnown, Served, [Next]_vars PROVE Served'
PROOF
<1>1. ASSUME NEW c \in Callers, Deliver(c) PROVE Served'
  BY <1>1, DeliverKeeps
<1>2. ASSUME NEW c \in Callers, CallbackStep(c) PROVE Served'
  BY <1>2, CallbackKeeps
<1>3. CASE FrameComes
  BY <1>3, WorkersFewer DEF FrameComes
<1>4. CASE FeedStep
  BY <1>4, WorkersFewer DEF FeedStep, FrameSent, FrameFails, AsksAgain
<1>5. ASSUME NEW s \in Streams, WorkerRepeats(s) PROVE Served'
  BY <1>5, WorkersFewer DEF WorkerRepeats
<1>6. ASSUME NEW s \in Streams, WorkerGivesUp(s) PROVE Served'
  <2>1. alive' \subseteq alive BY <1>6 DEF WorkerGivesUp
  <2> QED BY <1>6, <2>1, WorkersFewer DEF WorkerGivesUp
<1>7. ASSUME NEW s \in Streams, CameraStops(s) PROVE Served'
  BY <1>7, WorkersFewer DEF CameraStops
<1>8. CASE CameraTiresOfTalk
  BY <1>8, WorkersFewer DEF CameraTiresOfTalk
<1>9. CASE UNCHANGED vars
  BY <1>9, WorkersFewer DEF vars
<1> QED BY <1>1, <1>2, <1>3, <1>4, <1>5, <1>6, <1>7, <1>8, <1>9 DEF Next

LEMMA ServedAlways == ASSUME ProgramsKnown PROVE Spec => []Served
PROOF
<1>1. Init => Served BY ServedInit
<1>2. Served /\ [Next]_vars => Served' BY ServedStep
<1> QED BY <1>1, <1>2, PTL DEF Spec

\* As long as the library calls Callback from one thread at a time, no worker outlives
\* its last user, in either program.
THEOREM NoWorkerUnwantedHolds == ASSUME ProgramsKnown PROVE Spec => []NoWorkerUnwanted
PROOF BY ServedAlways, ServedMeans, PTL

LEMMA OthersKeptStep ==
  ASSUME Served, [Next]_vars, ~raced, "audio" \in alive, "audio" \notin alive'
  PROVE  wants = {} \/ "audio" \notin camera
PROOF
<1>1. ASSUME NEW c \in Callers, CallbackStep(c) PROVE wants = {}
  <2>1. CASE Joins(c)
    <3>1. PICK s \in Streams : Calls(c, <<"join", s>>) /\ alive' = alive \ {s}
      BY <2>1 DEF Joins
    <3>2. s = "audio" BY <3>1
    <3>3. todo[c] # <<>> /\ todo[c][1] = <<"join", "audio">> BY <3>1, <3>2 DEF Calls
    <3>4. Next1(c, AudioHalts) BY <3>3 DEF Next1, AudioHalts
    <3> QED BY <3>4 DEF Served, Orderly, NoneLeft
  <2>2. CASE Starts(c) BY <2>2 DEF Starts
  <2> QED
    BY <1>1, <2>1, <2>2 DEF CallbackStep, Requests, Stops, Flags, Releases
<1>2. ASSUME NEW s \in Streams, WorkerGivesUp(s) PROVE "audio" \notin camera
  BY <1>2 DEF WorkerGivesUp
<1> QED
  BY <1>1, <1>2
     DEF Next, vars, Deliver, FrameComes, FeedStep, FrameSent, FrameFails, AsksAgain,
         WorkerRepeats, CameraStops, CameraTiresOfTalk

\* The audio worker of a user that stays is not ended by the other one's leaving.
THEOREM OthersKeptHolds == ASSUME ProgramsKnown PROVE Spec => OthersKept
PROOF
<1>1. Served /\ [Next]_vars =>
        [~raced /\ "audio" \in alive /\ "audio" \notin alive' =>
           wants = {} \/ "audio" \notin camera]_vars
  <2> SUFFICES ASSUME Served, [Next]_vars, ~raced, "audio" \in alive, "audio" \notin alive'
               PROVE  wants = {} \/ "audio" \notin camera
    OBVIOUS
  <2> QED BY OthersKeptStep
<1> QED BY <1>1, ServedAlways, PTL DEF Spec, OthersKept

-------------------------------------------------------------------------------
(* What gbSvr has made the camera do, as long as the callers come one at a     *)
(* time.  n names what is left of the script of the one at work.               *)

Left == [
  idle  |-> <<>>,
  login |-> << <<"login", "on">> >>, logout |-> << <<"login", "off">> >>,
  real1 |-> << <<"start", "video">>, <<"start", "audio">>, <<"want", "real">> >>,
  real2 |-> << <<"start", "audio">>, <<"want", "real">> >>,
  real3 |-> << <<"want", "real">> >>,
  stop1 |-> << <<"stop", "video">>, <<"forget", "real">>, <<"release", "audio">> >>,
  stop2 |-> << <<"join", "video">>, <<"forget", "real">>, <<"release", "audio">> >>,
  stop3 |-> << <<"forget", "real">>, <<"release", "audio">> >>,
  talk1 |-> << <<"talk", "on">>, <<"start", "audio">>, <<"want", "talk">> >>,
  talk2 |-> << <<"start", "audio">>, <<"want", "talk">> >>,
  talk3 |-> << <<"want", "talk">> >>,
  quiet1 |-> << <<"talk", "off">>, <<"forget", "talk">>, <<"release", "audio">> >>,
  quiet2 |-> << <<"forget", "talk">>, <<"release", "audio">> >>,
  release |-> << <<"release", "audio">> >>,
  halt1 |-> << <<"stop", "audio">> >>, halt2 |-> << <<"join", "audio">> >>]
Phases == {"idle", "login", "logout", "real1", "real2", "real3", "stop1", "stop2", "stop3",
           "talk1", "talk2", "talk3", "quiet1", "quiet2", "release", "halt1", "halt2"}

AtWork(n) ==
  /\ \A c, d \in Callers : c # d => Idle(c) \/ Idle(d)
  /\ \A c \in Callers : ~Idle(c) => todo[c] = Left[n]
  /\ n # "idle" => \E c \in Callers : ~Idle(c)

\* A worker has a user, or gets one or its end by what is left; who ends one has
\* nobody left to want it.
WorkersWanted(n) ==
  /\ "video" \in alive => "real" \in wants \/ n \in {"real2", "real3"}
  /\ n = "stop3" => "video" \notin alive
  /\ "audio" \in alive => wants # {} \/ n \in {"real3", "talk3", "release", "halt1", "halt2"}
  /\ n \in {"halt1", "halt2"} => wants = {}
\* The same for the platform's own states.
SessionsWanted(n) ==
  /\ talking => "talk" \in wants \/ n \in {"talk1", "talk2", "talk3"}
  /\ n \in {"quiet1", "quiet2"} => ~talking
  /\ n = "login" => online

\* What the camera does is wanted, or on its way there, or the order to end it is
\* still to be given, or was refused or overtaken.
OrdersAsked(n) ==
  LET Excused == refused \cup stray IN
  /\ "video" \in camera =>
       "video" \in Excused \/ n \in {"real2", "real3"}
         \/ ("real" \in wants /\ n \notin {"stop2", "stop3"})
  /\ "audio" \in camera =>
       "audio" \in Excused \/ n \in {"real3", "talk3", "release", "halt1"} \/ wants # {}
  /\ "talk" \in camera =>
       "talk" \in Excused \/ n \in {"talk1", "talk2", "talk3"}
         \/ ("talk" \in wants /\ n # "quiet2")
  /\ "login" \in camera => "login" \in Excused \/ online \/ n = "logout"

Told(n) == AtWork(n) /\ WorkersWanted(n) /\ SessionsWanted(n) /\ OrdersAsked(n)

Typed ==
  /\ \A c \in Callers : \E n \in Phases : todo[c] = Left[n]
  /\ DOMAIN todo = Callers
  /\ talking \in BOOLEAN /\ online \in BOOLEAN /\ raced \in BOOLEAN
  /\ wants \subseteq Users /\ alive \subseteq Streams
  /\ camera \subseteq Orders /\ refused \subseteq Orders /\ stray \subseteq Orders

Faithful == program = "gbSvr" => Typed /\ (~raced => \E n \in Phases : Told(n))

\* What a message leaves to be done.
Opens == [online |-> "login", offline |-> "logout", startReal |-> "real1",
          stopReal |-> "stop1", startTalk |-> "talk1", stopTalk |-> "quiet1"]

LEMMA Scripts ==
  /\ Left["idle"] = <<>> /\ \A n \in Phases \ {"idle"} : Left[n] # <<>>
  /\ \A m \in Messages : Opens[m] \in Phases \ {"idle"} /\ Script["gbSvr"][m] = Left[Opens[m]]
<1>1. Left["idle"] = <<>> /\ \A n \in Phases \ {"idle"} : Left[n] # <<>>
  BY DEF Left, Phases
<1>2. ASSUME NEW m \in Messages
      PROVE  Opens[m] \in Phases \ {"idle"} /\ Script["gbSvr"][m] = Left[Opens[m]]
  <2>1. m \in {"online", "offline", "startReal", "stopReal", "startTalk", "stopTalk"}
    BY DEF Messages, GbSvrCallback
  <2>2. Opens[m] \in Phases \ {"idle"} BY <2>1 DEF Opens, Phases
  <2> USE DEF Opens, Left, GbSvrCallback
  <2>3. CASE m \in {"online", "offline"} BY <2>2, <2>3 DEF Script
  <2>4. CASE m = "startReal" BY <2>2, <2>4 DEF Script
  <2>5. CASE m = "stopReal" BY <2>2, <2>5 DEF Script
  <2>6. CASE m = "startTalk" BY <2>2, <2>6 DEF Script
  <2>7. CASE m = "stopTalk" BY <2>2, <2>7 DEF Script
  <2> QED BY <2>1, <2>3, <2>4, <2>5, <2>6, <2>7
<1> QED BY <1>1, <1>2

\* Which call it is tells what is left, and what is left behind it.
First == [
  login |-> <<"login", "on">>, logout |-> <<"login", "off">>, real1 |-> <<"start", "video">>,
  real2 |-> <<"start", "audio">>, real3 |-> <<"want", "real">>, stop1 |-> <<"stop", "video">>,
  stop2 |-> <<"join", "video">>, stop3 |-> <<"forget", "real">>, talk1 |-> <<"talk", "on">>,
  talk2 |-> <<"start", "audio">>, talk3 |-> <<"want", "talk">>, quiet1 |-> <<"talk", "off">>,
  quiet2 |-> <<"forget", "talk">>, release |-> <<"release", "audio">>,
  halt1 |-> <<"stop", "audio">>, halt2 |-> <<"join", "audio">>]
Then == [
  login |-> "idle", logout |-> "idle", real1 |-> "real2", real2 |-> "real3",
  real3 |-> "idle", stop1 |-> "stop2", stop2 |-> "stop3", stop3 |-> "release",
  talk1 |-> "talk2", talk2 |-> "talk3", talk3 |-> "idle", quiet1 |-> "quiet2",
  quiet2 |-> "release", release |-> "idle", halt1 |-> "halt2", halt2 |-> "idle"]

\* A stop makes way for the join of its stream, any other call for what is behind
\* it; only the release of the last user becomes another call.
Halts(n) == n \in {"stop1", "halt1"}
LEMMA OneBeforeTwo ==
  ASSUME NEW a \in Pairs, NEW b \in Pairs, NEW c \in Pairs
  PROVE  <<a>> \o <<b, c>> = <<a, b, c>>
<1> DEFINE s == <<a>> \o <<b, c>>
           t == <<a, b, c>>
<1>1. <<a>> \in Seq(Pairs) /\ <<b, c>> \in Seq(Pairs) OBVIOUS
<1>2. s \in Seq(Pairs) /\ Len(s) = 3 /\ s[1] = a /\ s[2] = b /\ s[3] = c BY <1>1
<1>3. t \in Seq(Pairs) /\ Len(t) = 3 /\ t[1] = a /\ t[2] = b /\ t[3] = c OBVIOUS
<1> HIDE DEF s, t
<1>4. \A i \in 1..3 : i = 1 \/ i = 2 \/ i = 3 OBVIOUS
<1>5. s = t BY <1>2, <1>3, <1>4
<1> QED BY <1>5 DEF s, t

LEMMA ScriptsGoOn ==
  ASSUME NEW n \in Phases, Left[n] # <<>>
  PROVE  /\ Head(Left[n]) = First[n] /\ Then[n] \in Phases
         /\ ~Halts(n) => Tail(Left[n]) = Left[Then[n]]
         /\ Halts(n) => << <<"join", First[n][2]>> >> \o Tail(Left[n]) = Left[Then[n]]
         /\ n = "release" => << <<"stop", "audio">> >> \o Tail(Left[n]) = Left["halt1"]
<1>1. Then[n] \in Phases
  BY DEF Then, Phases, Left
<1>2. CASE n = "login"
  BY <1>1, <1>2 DEF Left, First, Then, Halts
<1>3. CASE n = "logout"
  BY <1>1, <1>3 DEF Left, First, Then, Halts
<1>4. CASE n = "real1"
  BY <1>1, <1>4 DEF Left, First, Then, Halts
<1>5. CASE n = "real2"
  BY <1>1, <1>5 DEF Left, First, Then, Halts
<1>6. CASE n = "real3"
  BY <1>1, <1>6 DEF Left, First, Then, Halts
<1>7. CASE n = "stop1"
  <2>1. Head(Left[n]) = First[n] /\ Tail(Left[n]) = Left["stop3"]
    BY <1>7 DEF Left, First
  <2>2. << <<"join", "video">> >> \o Left["stop3"] = Left["stop2"]
    BY OneBeforeTwo DEF Left, Pairs, Verbs, Objects, Streams, Users
  <2>3. First[n][2] = "video" /\ Then[n] = "stop2"
    BY <1>7 DEF First, Then
  <2> QED BY <1>1, <1>7, <2>1, <2>2, <2>3 DEF Halts
<1>8. CASE n = "stop2"
  BY <1>1, <1>8 DEF Left, First, Then, Halts
<1>9. CASE n = "stop3"
  BY <1>1, <1>9 DEF Left, First, Then, Halts
<1>10. CASE n = "talk1"
  BY <1>1, <1>10 DEF Left, First, Then, Halts
<1>11. CASE n = "talk2"
  BY <1>1, <1>11 DEF Left, First, Then, Halts
<1>12. CASE n = "talk3"
  BY <1>1, <1>12 DEF Left, First, Then, Halts
<1>13. CASE n = "quiet1"
  BY <1>1, <1>13 DEF Left, First, Then, Halts
<1>14. CASE n = "quiet2"
  BY <1>1, <1>14 DEF Left, First, Then, Halts
<1>15. CASE n = "release"
  BY <1>1, <1>15 DEF Left, First, Then, Halts
<1>16. CASE n = "halt1"
  BY <1>1, <1>16 DEF Left, First, Then, Halts
<1>17. CASE n = "halt2"
  BY <1>1, <1>17 DEF Left, First, Then, Halts
<1> n # "idle"
  BY Scripts
<1> QED
  BY <1>2, <1>3, <1>4, <1>5, <1>6, <1>7, <1>8, <1>9, <1>10, <1>11, <1>12, <1>13,
     <1>14, <1>15, <1>16, <1>17
     DEF Phases

LEMMA Turn ==
  ASSUME Typed, NEW n \in Phases, AtWork(n), NEW c \in Callers, todo[c] # <<>>,
         NEW m \in Phases, todo' = [todo EXCEPT ![c] = Left[m]]
  PROVE  todo[c] = Left[n] /\ AtWork(m)'
<1>1. \A d \in Callers : d # c => todo[d] = <<>>
  BY DEF AtWork, Idle
<1>2. \A d \in Callers : todo'[d] = IF d = c THEN Left[m] ELSE <<>>
  BY <1>1 DEF Typed
<1> QED BY <1>2, Scripts DEF AtWork, Idle

\* The calls of the one at work, in the order of its script.
LEMMA CallTells ==
  ASSUME program = "gbSvr", Typed, ~raced, NEW n \in Phases, Told(n),
         NEW c \in Callers, CallbackStep(c)
  PROVE  \E m \in Phases : Told(m)'
<1> USE DEF platform
<1>1. todo[c] # <<>> /\ UNCHANGED <<program, online, talking, raced>>
  BY DEF CallbackStep, Requests, Starts, Stops, Joins, Flags, Releases, Calls
<1>2. todo[c] = Left[n] /\ Left[n] # <<>> /\ n # "idle"
  BY <1>1, Scripts DEF Told, AtWork, Idle
<1>3. /\ Head(todo[c]) = First[n] /\ Then[n] \in Phases
      /\ ~Halts(n) => Tail(todo[c]) = Left[Then[n]]
      /\ Halts(n) => << <<"join", First[n][2]>> >> \o Tail(todo[c]) = Left[Then[n]]
      /\ n = "release" => << <<"stop", "audio">> >> \o Tail(todo[c]) = Left["halt1"]
  BY <1>2, ScriptsGoOn
<1>4. \A call : Calls(c, call) => First[n] = call
  BY <1>3 DEF Calls
<1>5. ASSUME NEW m \in Phases, todo' = [todo EXCEPT ![c] = Left[m]],
             (WorkersWanted(m) /\ SessionsWanted(m) /\ OrdersAsked(m))'
      PROVE  \E k \in Phases : Told(k)'
  BY <1>1, <1>5, Turn DEF Told
<1>6. Done(c) /\ ~Halts(n) => todo' = [todo EXCEPT ![c] = Left[Then[n]]]
  BY <1>3 DEF Done
<1> DEFINE goal(m) == (WorkersWanted(m) /\ SessionsWanted(m) /\ OrdersAsked(m))'
<1>7. WorkersWanted(n) /\ SessionsWanted(n) /\ OrdersAsked(n)
      /\ wants \subseteq Users /\ alive \subseteq Streams
  BY DEF Told, Typed
<1> USE DEF WorkersWanted, SessionsWanted, OrdersAsked, Users, Streams
<1>8. CASE Requests(c)
  <2>1. PICK order \in {"login", "talk"}, on \in {"on", "off"} :
          Calls(c, <<order, on>>) /\ Tell(order, on = "on")
    BY <1>8 DEF Requests
  <2>2. \/ n = "login" /\ order = "login" /\ on = "on"
        \/ n = "logout" /\ order = "login" /\ on = "off"
        \/ n = "talk1" /\ order = "talk" /\ on = "on"
        \/ n = "quiet1" /\ order = "talk" /\ on = "off"
    BY <1>2, <1>4, <2>1 DEF First, Phases
  <2>3. UNCHANGED <<wants, alive, stray>> /\ todo' = [todo EXCEPT ![c] = Left[Then[n]]]
    BY <1>6, <1>8, <2>2 DEF Requests, Halts
  <2>4. goal(Then[n])
    BY <1>1, <1>7, <2>1, <2>2, <2>3 DEF Then, Tell, Obeyed, Refused
  <2> QED BY <1>3, <1>5, <2>3, <2>4
<1>9. CASE Starts(c)
  <2>1. PICK s \in Streams : /\ Calls(c, <<"start", s>>) /\ Tell(s, TRUE)
                             /\ alive' = alive \cup {s} /\ stray' = stray \ {s}
    BY <1>9 DEF Starts
  <2>2. \/ n = "real1" /\ s = "video"
        \/ n \in {"real2", "talk2"} /\ s = "audio"
    BY <1>2, <1>4, <2>1 DEF First, Phases
  <2>3. UNCHANGED wants /\ todo' = [todo EXCEPT ![c] = Left[Then[n]]]
    BY <1>6, <1>9, <2>2 DEF Starts, Halts
  <2>4. goal(Then[n])
    BY <1>1, <1>7, <2>1, <2>2, <2>3 DEF Then, Tell, Obeyed, Refused
  <2> QED BY <1>3, <1>5, <2>3, <2>4
<1>10. CASE Stops(c)
  <2>1. PICK s \in Streams : /\ Calls(c, <<"stop", s>>) /\ Tell(s, FALSE)
                             /\ Becomes(c, <<"join", s>>) /\ stray' = stray \ {s}
    BY <1>10 DEF Stops
  <2>2. \/ n = "stop1" /\ s = "video"
        \/ n = "halt1" /\ s = "audio"
    BY <1>2, <1>4, <2>1 DEF First, Phases
  <2>3. UNCHANGED <<wants, alive>> /\ todo' = [todo EXCEPT ![c] = Left[Then[n]]]
    <3>1. Halts(n) /\ First[n][2] = s BY <2>2 DEF Halts, First
    <3> QED BY <1>3, <1>10, <2>1, <3>1 DEF Stops, Becomes
  <2>4. goal(Then[n])
    BY <1>1, <1>7, <2>1, <2>2, <2>3 DEF Then, Tell, Obeyed, Refused
  <2> QED BY <1>3, <1>5, <2>3, <2>4
<1>11. CASE Joins(c)
  <2>1. PICK s \in Streams : Calls(c, <<"join", s>>) /\ alive' = alive \ {s}
    BY <1>11 DEF Joins
  <2>2. \/ n = "stop2" /\ s = "video"
        \/ n = "halt2" /\ s = "audio"
    BY <1>2, <1>4, <2>1 DEF First, Phases
  <2>3. /\ UNCHANGED <<wants, camera, refused, stray>>
        /\ todo' = [todo EXCEPT ![c] = Left[Then[n]]]
    BY <1>6, <1>11, <2>2 DEF Joins, Halts
  <2>4. goal(Then[n])
    BY <1>1, <1>7, <2>1, <2>2, <2>3 DEF Then
  <2> QED BY <1>3, <1>5, <2>3, <2>4
<1>12. CASE Flags(c)
  <2>1. PICK u \in Users : \/ Calls(c, <<"want", u>>) /\ wants' = wants \cup {u}
                           \/ Calls(c, <<"forget", u>>) /\ wants' = wants \ {u}
    BY <1>12 DEF Flags
  <2>2. \/ n = "real3" /\ wants' = wants \cup {"real"}
        \/ n = "talk3" /\ wants' = wants \cup {"talk"}
        \/ n = "stop3" /\ wants' = wants \ {"real"}
        \/ n = "quiet2" /\ wants' = wants \ {"talk"}
    BY <1>2, <1>4, <2>1 DEF First, Phases
  <2>3. /\ UNCHANGED <<alive, camera, refused, stray>>
        /\ todo' = [todo EXCEPT ![c] = Left[Then[n]]]
    BY <1>6, <1>12, <2>2 DEF Flags, Halts
  <2>4. goal(Then[n])
    BY <1>1, <1>7, <2>2, <2>3 DEF Then
  <2> QED BY <1>3, <1>5, <2>3, <2>4
<1>13. CASE Releases(c)
  <2>1. n = "release" /\ UNCHANGED <<wants, alive, camera, refused, stray>>
    BY <1>2, <1>4, <1>13 DEF First, Phases, Releases
  <2>2. CASE wants = {}
    <3>1. todo' = [todo EXCEPT ![c] = Left["halt1"]]
      BY <1>3, <1>13, <2>1, <2>2 DEF Releases, Becomes
    <3>2. goal("halt1") BY <1>1, <1>7, <2>1, <2>2
    <3> QED BY <1>5, <3>1, <3>2 DEF Phases
  <2>3. CASE wants # {}
    <3>1. Done(c) BY <1>13, <2>3 DEF Releases
    <3>2. todo' = [todo EXCEPT ![c] = Left[Then[n]]] BY <1>6, <2>1, <3>1 DEF Halts
    <3>3. goal(Then[n]) BY <1>1, <1>7, <2>1, <2>3 DEF Then
    <3> QED BY <1>3, <1>5, <3>2, <3>3
  <2> QED BY <2>2, <2>3
<1> QED BY <1>8, <1>9, <1>10, <1>11, <1>12, <1>13 DEF CallbackStep

\* A message finds nobody at work and puts its whole script there.
LEMMA DeliverTells ==
  ASSUME program = "gbSvr", Typed, ~raced', NEW n \in Phases, Told(n),
         NEW c \in Callers, Deliver(c)
  PROVE  \E m \in Phases : Told(m)'
<1>1. ~raced /\ \A d \in Callers : todo[d] = <<>>
  BY DEF Deliver, Idle, Typed
<1>2. n = "idle" BY <1>1 DEF Told, AtWork, Idle
<1>3. UNCHANGED <<program, wants, alive, camera, refused, stray>> BY DEF Deliver
<1>4. PICK m \in Messages :
        /\ todo' = [todo EXCEPT ![c] = Script[program][m]]
        /\ online' = IF m \in {"online", "offline"} THEN m = "online" ELSE online
        /\ talking' = IF m \in {"startTalk", "stopTalk"} THEN m = "startTalk" ELSE talking
  BY DEF Deliver
<1>5. m \in {"online", "offline", "startReal", "stopReal", "startTalk", "stopTalk"}
  BY DEF Messages, GbSvrCallback
<1> DEFINE new == Opens[m]
<1>6. /\ m = "online" => new = "login"
      /\ m = "offline" => new = "logout"
      /\ m = "startReal" => new = "real1"
      /\ m = "stopReal" => new = "stop1"
      /\ m = "startTalk" => new = "talk1"
      /\ m = "stopTalk" => new = "quiet1"
  BY DEF Opens
<1>7. new \in Phases \ {"idle"} /\ Script["gbSvr"][m] = Left[new] BY Scripts
<1> HIDE DEF new
<1>8. \A d \in Callers : todo'[d] = IF d = c THEN Left[new] ELSE <<>>
  BY <1>1, <1>4, <1>7 DEF Typed
<1>9. AtWork(new)'
  BY <1>7, <1>8, Scripts DEF AtWork, Idle
<1>10. WorkersWanted(n) /\ SessionsWanted(n) /\ OrdersAsked(n) /\ talking \in BOOLEAN
  BY DEF Told, Typed
<1>11. (WorkersWanted(new) /\ SessionsWanted(new) /\ OrdersAsked(new))'
  BY <1>2, <1>3, <1>4, <1>5, <1>6, <1>10 DEF WorkersWanted, SessionsWanted, OrdersAsked
<1> QED BY <1>7, <1>9, <1>11 DEF Told

\* The feed, the workers and the camera, which take no call from any script: what
\* they switch on too late counts as stray.
LEMMA OthersTell ==
  ASSUME program = "gbSvr", Typed, ~raced, NEW n \in Phases, Told(n),
         \/ FrameComes \/ FrameSent \/ FrameFails \/ AsksAgain \/ CameraTiresOfTalk
         \/ \E s \in Streams : WorkerRepeats(s) \/ WorkerGivesUp(s) \/ CameraStops(s)
  PROVE  Told(n)'
<1> USE DEF platform
<1>1. UNCHANGED <<todo, wants, talking, online>>
  BY DEF FrameComes, FrameSent, FrameFails, AsksAgain, CameraTiresOfTalk, WorkerRepeats,
         WorkerGivesUp, CameraStops
<1>2. alive' \subseteq alive
  BY DEF FrameComes, FrameSent, FrameFails, AsksAgain, CameraTiresOfTalk, WorkerRepeats,
         WorkerGivesUp, CameraStops
<1>3. AtWork(n)' BY <1>1 DEF Told, AtWork, Idle
<1>4. WorkersWanted(n)' /\ SessionsWanted(n)'
  BY <1>1, <1>2 DEF Told, WorkersWanted, SessionsWanted
<1>5. OrdersAsked(n) /\ WorkersWanted(n) /\ SessionsWanted(n) BY DEF Told
<1>6. CASE FrameComes \/ FrameSent \/ CameraTiresOfTalk
  <2>1. UNCHANGED <<refused, stray>> /\ camera' \subseteq camera
    BY <1>6 DEF FrameComes, FrameSent, CameraTiresOfTalk
  <2>2. OrdersAsked(n)' BY <1>1, <1>5, <2>1 DEF OrdersAsked
  <2> QED BY <1>3, <1>4, <2>2 DEF Told
<1>7. CASE FrameFails \/ AsksAgain
  <2>1. Tell("talk", TRUE) /\ StrayTalk
    BY <1>7 DEF FrameFails, AsksAgain, Tell
  <2>2. OrdersAsked(n)'
    BY <1>1, <1>5, <2>1
       DEF OrdersAsked, SessionsWanted, StrayTalk, Tell, Obeyed, Refused
  <2> QED BY <1>3, <1>4, <2>2 DEF Told
<1>8. ASSUME NEW s \in Streams, WorkerRepeats(s) PROVE OrdersAsked(n)'
  <2>1. /\ s \in alive /\ s \notin camera /\ Tell(s, TRUE)
        /\ stray' = IF \E c \in Callers : Calls(c, <<"join", s>>) THEN stray \cup {s} ELSE stray
    BY <1>8 DEF WorkerRepeats
  <2>2. ASSUME <<n, s>> \in {<<"stop2", "video">>, <<"halt2", "audio">>}
        PROVE  s \in stray'
    <3>1. PICK c \in Callers : todo[c] = Left[n] /\ todo[c] # <<>>
      BY <2>2 DEF Told, AtWork, Idle
    <3>2. Head(Left[n]) = First[n] BY <3>1, ScriptsGoOn
    <3>3. First[n] = <<"join", s>> BY <2>2 DEF First
    <3>4. Calls(c, <<"join", s>>) BY <3>1, <3>2, <3>3 DEF Calls
    <3> QED BY <2>1, <3>4
  <2>3. stray \subseteq stray' BY <2>1
  <2>4. /\ camera' \subseteq camera \cup {s}
        /\ refused \ {s} \subseteq refused'
        /\ s \notin camera' => UNCHANGED camera
        /\ \A o \in camera : o \in refused => o \in refused'
    BY <2>1 DEF Tell, Obeyed, Refused
  <2>5. \A o \in camera : o \in refused \cup stray => o \in refused' \cup stray'
    BY <2>3, <2>4
  <2>6. CASE s = "video"
    <3>1. "video" \in alive BY <2>1, <2>6
    <3>2. n # "stop3" /\ ("real" \in wants \/ n \in {"real2", "real3"})
      BY <1>5, <3>1 DEF WorkersWanted
    <3>3. n = "stop2" => "video" \in stray' BY <2>2, <2>6
    <3>4. \A o : o # "video" => (o \in camera' <=> o \in camera)
      BY <2>1, <2>6 DEF Tell, Obeyed, Refused
    <3> QED BY <1>1, <1>5, <2>5, <3>2, <3>3, <3>4 DEF OrdersAsked
  <2>7. CASE s = "audio"
    BY <1>1, <1>5, <2>1, <2>2, <2>3, <2>4, <2>7 DEF OrdersAsked, WorkersWanted
  <2> QED BY <2>6, <2>7 DEF Streams
<1>9. ASSUME NEW s \in Streams, WorkerGivesUp(s) \/ CameraStops(s) PROVE OrdersAsked(n)'
  <2>1. /\ UNCHANGED stray
        /\ \/ Tell(s, FALSE)
           \/ camera' \subseteq camera /\ UNCHANGED refused
    BY <1>9 DEF WorkerGivesUp, CameraStops
  <2> QED
    BY <1>1, <1>5, <2>1 DEF OrdersAsked, Tell, Obeyed, Refused, Streams
<1> QED BY <1>3, <1>4, <1>6, <1>7, <1>8, <1>9 DEF Told

\* What is left of a script stays one of the phases, whoever else is at work.
LEMMA CallTyped ==
  ASSUME Typed, NEW c \in Callers, CallbackStep(c)
  PROVE  Typed'
<1> USE DEF platform
<1>1. PICK n \in Phases : todo[c] = Left[n] BY DEF Typed
<1>2. todo[c] # <<>> /\ UNCHANGED <<online, talking, raced>>
  BY DEF CallbackStep, Requests, Starts, Stops, Joins, Flags, Releases, Calls
<1>3. /\ Head(todo[c]) = First[n] /\ Then[n] \in Phases
      /\ ~Halts(n) => Tail(todo[c]) = Left[Then[n]]
      /\ Halts(n) => << <<"join", First[n][2]>> >> \o Tail(todo[c]) = Left[Then[n]]
      /\ n = "release" => << <<"stop", "audio">> >> \o Tail(todo[c]) = Left["halt1"]
  BY <1>1, <1>2, ScriptsGoOn
<1>4. \A call : Calls(c, call) => First[n] = call BY <1>3 DEF Calls
<1>5. n \in Phases \ {"idle"} BY <1>1, <1>2, Scripts
<1>6. \E m \in Phases : todo' = [todo EXCEPT ![c] = Left[m]]
  <2>1. CASE Stops(c)
    <3>1. PICK s \in Streams : Calls(c, <<"stop", s>>) /\ Becomes(c, <<"join", s>>)
      BY <2>1 DEF Stops
    <3>2. First[n] = <<"stop", s>> BY <1>4, <3>1
    <3>3. Halts(n) /\ First[n][2] = s BY <1>5, <3>2 DEF First, Phases, Halts
    <3> QED BY <1>3, <3>1, <3>3 DEF Becomes
  <2>2. CASE Releases(c)
    <3>1. n = "release" BY <1>4, <1>5, <2>2 DEF First, Phases, Releases
    <3>2. Done(c) => todo' = [todo EXCEPT ![c] = Left[Then[n]]]
      BY <1>3, <3>1 DEF Done, Halts
    <3>3. Becomes(c, <<"stop", "audio">>) => todo' = [todo EXCEPT ![c] = Left["halt1"]]
      BY <1>3, <3>1 DEF Becomes
    <3> QED BY <1>3, <2>2, <3>2, <3>3 DEF Releases, Phases
  <2>3. CASE Requests(c) \/ Starts(c) \/ Joins(c) \/ Flags(c)
    <3>1. Done(c) BY <2>3 DEF Requests, Starts, Joins, Flags
    <3>2. \E verb \in {"login", "talk", "start", "join", "want", "forget"},
               x \in Objects : Calls(c, <<verb, x>>)
      BY <2>3 DEF Requests, Starts, Joins, Flags, Objects
    <3>3. First[n][1] # "stop" BY <1>4, <3>2
    <3>4. ~Halts(n) BY <3>3 DEF Halts, First
    <3> QED BY <1>3, <3>1, <3>4 DEF Done
  <2> QED BY <2>1, <2>2, <2>3 DEF CallbackStep
<1>7. /\ DOMAIN todo' = Callers
      /\ \A d \in Callers : \E m \in Phases : todo'[d] = Left[m]
  BY <1>6 DEF Typed
<1>8. wants' \subseteq Users
  BY DEF Typed, CallbackStep, Requests, Starts, Stops, Joins, Flags, Releases
<1>9. alive' \subseteq Streams
  BY DEF Typed, CallbackStep, Requests, Starts, Stops, Joins, Flags, Releases
<1>10. camera' \subseteq Orders /\ refused' \subseteq Orders /\ stray' \subseteq Orders
  BY DEF Typed, CallbackStep, Requests, Starts, Stops, Joins, Flags, Releases, Tell, Obeyed,
         Refused, Orders
<1> QED BY <1>2, <1>7, <1>8, <1>9, <1>10 DEF Typed

LEMMA StepTyped ==
  ASSUME program = "gbSvr", Typed, [Next]_vars
  PROVE  Typed'
<1> USE DEF platform
<1>1. CASE \E c \in Callers : CallbackStep(c) BY <1>1, CallTyped
<1>2. ASSUME NEW c \in Callers, Deliver(c) PROVE Typed'
  <2>1. PICK m \in Messages :
          /\ todo' = [todo EXCEPT ![c] = Script["gbSvr"][m]]
          /\ online' = IF m \in {"online", "offline"} THEN m = "online" ELSE online
          /\ talking' = IF m \in {"startTalk", "stopTalk"} THEN m = "startTalk" ELSE talking
    BY <1>2 DEF Deliver
  <2>2. \E k \in Phases : Script["gbSvr"][m] = Left[k] BY Scripts
  <2>3. DOMAIN todo' = Callers /\ \A d \in Callers : \E k \in Phases : todo'[d] = Left[k]
    BY <2>1, <2>2 DEF Typed
  <2>4. online' \in BOOLEAN /\ talking' \in BOOLEAN BY <2>1 DEF Typed
  <2>5. raced' \in BOOLEAN BY <1>2 DEF Deliver, Typed
  <2> QED BY <1>2, <2>3, <2>4, <2>5 DEF Deliver, Typed
<1>3. CASE \/ FrameComes \/ FeedStep \/ CameraTiresOfTalk
           \/ \E s \in Streams : WorkerRepeats(s) \/ WorkerGivesUp(s) \/ CameraStops(s)
  <2>1. UNCHANGED <<todo, wants, talking, online, raced>>
    BY <1>3 DEF FrameComes, FeedStep, FrameSent, FrameFails, AsksAgain, CameraTiresOfTalk,
                WorkerRepeats, WorkerGivesUp, CameraStops
  <2>2. alive' \subseteq Streams
    BY <1>3 DEF FrameComes, FeedStep, FrameSent, FrameFails, AsksAgain, CameraTiresOfTalk,
                WorkerRepeats, WorkerGivesUp, CameraStops, Typed
  <2>3. camera' \subseteq Orders /\ refused' \subseteq Orders /\ stray' \subseteq Orders
    BY <1>3 DEF FrameComes, FeedStep, FrameSent, FrameFails, AsksAgain, CameraTiresOfTalk,
                WorkerRepeats, WorkerGivesUp, CameraStops, StrayTalk, Tell, Obeyed, Refused,
                Orders, Typed
  <2> QED BY <2>1, <2>2, <2>3 DEF Typed
<1>4. CASE UNCHANGED vars BY <1>4 DEF vars, Typed
<1> QED BY <1>1, <1>2, <1>3, <1>4 DEF Next

LEMMA FaithfulInit == Init => Faithful
<1> SUFFICES ASSUME Init PROVE Typed /\ Told("idle") /\ "idle" \in Phases
  BY DEF Faithful
<1>1. "idle" \in Phases BY DEF Phases
<1>2. Typed BY <1>1, Scripts DEF Init, Typed
<1>3. Told("idle")
  BY DEF Init, Told, AtWork, Idle, WorkersWanted, SessionsWanted, OrdersAsked
<1> QED BY <1>1, <1>2, <1>3

LEMMA FaithfulStep == Faithful /\ [Next]_vars => Faithful'
<1> SUFFICES ASSUME Faithful, [Next]_vars, program' = "gbSvr"
             PROVE  Typed' /\ (~raced' => \E m \in Phases : Told(m)')
  BY DEF Faithful
<1> USE DEF platform
<1>1. program = "gbSvr"
  BY DEF Next, vars, Deliver, CallbackStep, Requests, Starts, Stops, Joins, Flags, Releases,
         FrameComes, FeedStep, FrameSent, FrameFails, AsksAgain, WorkerRepeats,
         WorkerGivesUp, CameraStops, CameraTiresOfTalk
<1>2. Typed /\ (~raced => \E n \in Phases : Told(n)) BY <1>1 DEF Faithful
<1>3. Typed' BY <1>1, <1>2, StepTyped
<1>4. ASSUME ~raced' PROVE \E m \in Phases : Told(m)'
  <2>1. ~raced
    BY <1>2, <1>4
       DEF Next, vars, Deliver, CallbackStep, Requests, Starts, Stops, Joins, Flags,
           Releases, FrameComes, FeedStep, FrameSent, FrameFails, AsksAgain, WorkerRepeats,
           WorkerGivesUp, CameraStops, CameraTiresOfTalk
  <2>2. PICK n \in Phases : Told(n) BY <1>2, <2>1
  <2>3. ASSUME NEW c \in Callers, Deliver(c) PROVE \E m \in Phases : Told(m)'
    BY <1>1, <1>2, <1>4, <2>2, <2>3, DeliverTells
  <2>4. ASSUME NEW c \in Callers, CallbackStep(c) PROVE \E m \in Phases : Told(m)'
    BY <1>1, <1>2, <2>1, <2>2, <2>4, CallTells
  <2>5. CASE \/ FrameComes \/ FeedStep \/ CameraTiresOfTalk
             \/ \E s \in Streams : WorkerRepeats(s) \/ WorkerGivesUp(s) \/ CameraStops(s)
    <3>1. Told(n)' BY <1>1, <1>2, <2>1, <2>2, <2>5, OthersTell DEF FeedStep
    <3> QED BY <3>1
  <2>6. CASE UNCHANGED vars
    <3>1. Told(n)'
      BY <2>2, <2>6
         DEF vars, Told, AtWork, Idle, WorkersWanted, SessionsWanted, OrdersAsked
    <3> QED BY <3>1
  <2> QED BY <2>3, <2>4, <2>5, <2>6 DEF Next
<1> QED BY <1>3, <1>4

\* The camera of gbSvr does nothing the platform has not asked for, but what a
\* refused order, a worker being stopped or a late frame of talk left on.
THEOREM NothingUnaskedHolds == Spec => []NothingUnasked
<1>1. Faithful => NothingUnasked
  <2> SUFFICES ASSUME Faithful, Settled, program = "gbSvr"
               PROVE  camera \subseteq Wanted \cup refused \cup stray
    BY DEF NothingUnasked
  <2>1. PICK n \in Phases : Told(n) BY DEF Faithful, Settled
  <2>2. n = "idle" BY <2>1 DEF Told, AtWork, Settled
  <2>3. camera \subseteq Orders BY DEF Faithful, Typed
  <2>4. OrdersAsked("idle") BY <2>1, <2>2 DEF Told
  <2> QED BY <2>3, <2>4 DEF OrdersAsked, Wanted, Orders, Streams
<1> QED BY <1>1, FaithfulInit, FaithfulStep, PTL DEF Spec
===============================================================================
