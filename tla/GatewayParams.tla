------------------------------- MODULE GatewayParams -------------------------------
(***************************************************************************)
(* The start of the gateway (dsjet_gb_start in libShareDemo/gbSvr.cpp and  *)
(* in the older hi3556/src/main.cpp): the parameters are read from a file  *)
(* over the built-in ones; a file that cannot be read is written anew; the *)
(* platform must answer a ping before it is given the parameters.          *)
(*                                                                         *)
(* A file is a sequence of lines.  A line is an entry "key=value;", the    *)
(* same without the semicolon, an annotation, or junk without "=".  What   *)
(* the program takes for the value is the text after "=" but for its last  *)
(* character: the value if a semicolon ends it, or a value cut short.      *)
(* Two keys of the map stand for all; only the address is pinged.          *)
(***************************************************************************)
EXTENDS Integers, Sequences

CONSTANTS
  Default, Edited, Cut,  \* a built-in value, a user's, one without its last character
  MaxEdits, MaxFaults    \* bounds: files written by the user, crashes

\* A value that has lost its last character is neither of the others.
ParamsAssumption == Cut \notin {Default, Edited}

Keys == <<"Password", "PlatformIP">>   \* in the order of the map
KeySet == {Keys[i] : i \in 1..Len(Keys)}

Entry(k, v, ended) == [kind |-> "entry", key |-> k, value |-> v, ended |-> ended]
Note == [kind |-> "note"]
Junk == [kind |-> "junk"]
NoFile == <<[kind |-> "no file"]>>

\* What a user may leave: an entry with or without its semicolon, behind an
\* annotation, or before a line that is none of these.
UserEntries == [kind : {"entry"}, key : KeySet, value : {Edited}, ended : BOOLEAN]
UserFiles == {<<entry>> : entry \in UserEntries}
               \cup {<<Note, Entry("Password", Edited, TRUE)>>,
                     <<Entry("PlatformIP", Edited, TRUE), Junk>>}

\* gbSvr looks for the file in a directory and creates it in the one it runs in,
\* and a failed reading is forgotten; in the older program it ends the start.
Programs == {[name |-> "gbSvr", samePlace |-> b] : b \in BOOLEAN}
              \cup {[name |-> "hi3556", samePlace |-> TRUE]}

VARIABLES
  prog,      \* the program
  file,      \* the file the program looks for
  map,       \* GBParamMap
  pc,        \* where dsjet_gb_start is
  ret,       \* its ret, -1 or 0
  given,     \* the parameters GBStartUp was called with
  edits, faults, \* bounded: files written by the user, crashes
  semicolons \* ghost: the user has ended every entry

vars == <<prog, file, map, pc, ret, given, edits, faults, semicolons>>

Defaults == [k \in KeySet |-> Default]

Init ==
  /\ prog \in Programs /\ file = NoFile /\ map = Defaults
  /\ pc = "off" /\ ret = 0 /\ given = Defaults
  /\ edits = 0 /\ faults = 0 /\ semicolons = TRUE

\* The lines before the first one that is neither annotation nor has a "=".
Usable(f) == {i \in 1..Len(f) : \A j \in 1..i : f[j].kind \in {"entry", "note"}}
Entries(f, k) == {i \in Usable(f) : f[i].kind = "entry" /\ f[i].key = k}

-------------------------------------------------------------------------------
(* Steps with a plausible bug.  They are not part of the specification: each   *)
(* one in the place of its original is what some property has to catch.        *)

\* The length of the value counts from the line's first character.
ReadLong(line) == Cut

\* The file is opened without truncation: a bad line stays behind the new ones.
CreateAppends ==
  /\ pc = "create"
  /\ file' = (IF prog.samePlace
              THEN [i \in 1..Len(Keys) |-> Entry(Keys[i], map[Keys[i]], TRUE)]
                     \o SelectSeq(file, LAMBDA line : line.kind = "junk")
              ELSE file)
  /\ pc' = "check"
  /\ UNCHANGED <<prog, map, ret, given, edits, faults, semicolons>>

-------------------------------------------------------------------------------

Read(line) == IF line.ended THEN line.value ELSE Cut
Unreadable(f) == Usable(f) # 1..Len(f)

\* A later line of a key counts; a key without a line keeps its value.
Loaded(f, old) ==
  [k \in KeySet |->
     IF Entries(f, k) = {} THEN old[k]
     ELSE Read(f[CHOOSE i \in Entries(f, k) : \A j \in Entries(f, k) : j <= i])]

UserWrites ==
  /\ pc = "off" /\ edits < MaxEdits
  /\ edits' = edits + 1
  /\ file' \in UserFiles
  /\ semicolons' = (semicolons /\ \A i \in 1..Len(file') :
                      file'[i].kind = "entry" => file'[i].ended)
  /\ UNCHANGED <<prog, map, pc, ret, given, faults>>

Boot ==
  /\ pc = "off"
  /\ map' = Defaults /\ pc' = "load" /\ ret' = 0
  /\ UNCHANGED <<prog, file, given, edits, faults, semicolons>>

LoadParam ==
  /\ pc = "load"
  /\ map' = Loaded(file, map)
  /\ IF Unreadable(file) THEN ret' = -1 /\ pc' = "create"
                         ELSE ret' = 0 /\ pc' = "check"
  /\ UNCHANGED <<prog, file, given, edits, faults, semicolons>>

Create ==
  /\ pc = "create"
  /\ file' = (IF prog.samePlace
              THEN [i \in 1..Len(Keys) |-> Entry(Keys[i], map[Keys[i]], TRUE)]
              ELSE file)
  /\ pc' = "check"
  /\ UNCHANGED <<prog, map, ret, given, edits, faults, semicolons>>

\* getValueFromParam finds every key, so what is left of ret is the reading's failure,
\* which gbSvr has forgotten by then.
EndsStart == prog.name = "hi3556" /\ ret = -1

Check ==
  /\ pc = "check"
  /\ pc' = IF EndsStart THEN "off" ELSE "ping"
  /\ UNCHANGED <<prog, file, map, ret, given, edits, faults, semicolons>>

\* Until it is answered the ping is repeated; a cut address never answers.
Answered == map["PlatformIP"] # Cut

StartUp ==
  /\ pc = "ping" /\ Answered
  /\ given' = map /\ pc' = "run"
  /\ UNCHANGED <<prog, file, map, ret, edits, faults, semicolons>>

\* The program dies.  While it writes, the file keeps its first lines, or the
\* last of them without its end, which has no "=" or no semicolon.
Crash ==
  /\ pc # "off" /\ faults < MaxFaults
  /\ faults' = faults + 1 /\ pc' = "off"
  /\ \/ file' = file
     \/ /\ pc = "create" /\ prog.samePlace
        /\ \E n \in 0..Len(Keys), end \in {"line", "junk", "entry"} :
             LET whole == [i \in 1..n |-> Entry(Keys[i], map[Keys[i]], TRUE)]
             IN file' = CASE end = "line" -> whole
                          [] end = "junk" -> Append(whole, Junk)
                          [] OTHER -> IF n = 0 THEN whole ELSE [whole EXCEPT ![n].ended = FALSE]
  /\ UNCHANGED <<prog, map, ret, given, edits, semicolons>>

-------------------------------------------------------------------------------

Start == Boot \/ LoadParam \/ Create \/ Check \/ StartUp
Next == UserWrites \/ Start \/ Crash

\* The program goes on, and after a failed start somebody starts it again.
Spec == Init /\ [][Next]_vars /\ WF_vars(Start)

-------------------------------------------------------------------------------
(* Properties *)

\* The platform is never given a value nobody wrote: unless the user forgot a
\* semicolon or the program died, a parameter is a built-in or a user's value, also
\* after files that were read half, written anew and read again.
AuthenticValues ==
  (semicolons /\ faults = 0) => \A k \in KeySet : map[k] # Cut /\ given[k] # Cut

\* What the gateway runs with is what the next start will read: a file that was
\* written anew says what is in use, the lines understood before the bad one included.
RunsOnFile == (pc = "run" /\ ~Unreadable(file)) => given = Loaded(file, Defaults)

\* Both: what runs is genuine and is what the file says.
ParametersTrue == AuthenticValues /\ RunsOnFile

\* Whatever the file holds, the gateway comes up, in the older program at the second
\* start; only an address that is cut short keeps it from it.
Running == pc = "run" \/ ~Answered
ComesUp == <>Running

\* Two lines at most, every entry ended and with a genuine value: a file without crash
\* and without a forgotten semicolon.
Clean(f) ==
  /\ Len(f) \in {1, 2}
  /\ \A i \in 1..Len(f) : f[i].kind = "entry" => f[i].ended /\ f[i].value # Cut

\* What the proof carries through every step.  Between reading and running the map is
\* what the file says, unless the file is one that cannot be read; then it is written
\* anew or, with a file in another place, left as it is.
Genuine ==
  /\ map = [k \in KeySet |-> map[k]] /\ faults \in Nat
  /\ (semicolons /\ faults = 0) => Clean(file)
  /\ pc = "load" => map = Defaults
  /\ pc = "create" => Unreadable(file)
  /\ pc \in {"check", "ping"} => Unreadable(file) \/ map = Loaded(file, Defaults)
  /\ ParametersTrue
===============================================================================
