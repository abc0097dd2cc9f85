-------------------------------- MODULE Flows --------------------------------
(***************************************************************************)
(* What is known at each step of a handler of the thing and the rows of    *)
(* its name, whatever was there before, while no other request is at work. *)
(* It is computed from the handler's steps alone, for a few tables at a    *)
(* time: for those of a promise and those that the promise rests on.  What *)
(* the computation finds for HostHive's handlers is the assumption from    *)
(* which FlowProofs proves the promises, for all names and requests.  What *)
(* holds whoever else is at work is found likewise, for OverlapProofs.     *)
(***************************************************************************)
EXTENDS Promises, SequencesExt

\* What is known of a value: which one it is of those that the handlers treat
\* in a way of their own and of the words that are told apart, or whether it
\* is "this", the one that is watched.
Class(words, w, v) ==
  IF v \in {None, "off", "broken", "twice"} \cup words THEN v ELSE IF v = w THEN "this" ELSE "other"

TablesIn(m) ==
  {t \in UNION {{Scripts[m][n][i].on : i \in DOMAIN Scripts[m][n]} : n \in DOMAIN Scripts[m]} : t # ""}
RowIn(m, t) == IF t \in DOMAIN Columns[m] THEN Columns[m][t] ELSE t
AddedIn(m) ==
  UNION {{Scripts[m][n][i].on : i \in {j \in DOMAIN Scripts[m][n] : Scripts[m][n][j].op = "add"}} :
           n \in DOMAIN Scripts[m]}

\* A concern is what shall be true of the things in "on" at any time and,
\* with the rows in "rows", when a request is over, if only such calls and
\* crashes happen as it bears.  It tells some words apart and, if it watches,
\* any one value from the others; "follows" are tables whose things are then
\* what their rows show, and it may be "alone": about kinds with one name.
Concern(on, inRows, always, rest, bears) ==
  [on |-> on, rows |-> inRows, always |-> always, rest |-> rest, bears |-> bears,
   words |-> {}, watch |-> FALSE, follows |-> {}, alone |-> FALSE]
PlainRows   == {None, "off", "broken", "twice", "other"}
PlainThings == PlainRows \ {"off"}
RowsOf(c)   == PlainRows \cup c.words \cup (IF c.watch THEN {"this"} ELSE {})
ThingsOf(c) == RowsOf(c) \ {"off"}
WordIn(c, v) == Class(c.words, None, v)

\* What is known: the things, the rows that are committed, what the session
\* has made of them, what the request asks for, and of the files that were
\* read the line of this name, if those of the others are still the same.
Known(thing, com, mine, asked, line) ==
  [thing |-> thing, com |-> com, mine |-> mine, asked |-> asked, line |-> line]
OwnIn(x, t)   == IF x.mine[t] = Same THEN x.com[t] ELSE x.mine[t]
BackIn(x)     == [thing |-> x.thing, row |-> x.com]
OverIn(c, x)  == [thing |-> x.thing, row |-> [t \in c.rows |-> OwnIn(x, t)]]
AtRestIn(c, r, asked, line) == Known(r.thing, r.row, [t \in c.rows |-> Same], asked, line)
NoLine(c) == [t \in c.on |-> Unread]
\* A session that has read nothing has empty lines.
FirstLine(c) == [t \in c.on |-> IF c.alone THEN None ELSE Unread]
-----------------------------------------------------------------------------
(* What each step makes of it. *)

\* Where a step leads, when it is done and when it is not.
Onto(s, i) ==
  LandsIn(s)[i + 1] \cup (IF s[i].or = 0 THEN {} ELSE LandsIn(s)[i + s[i].or])

\* A task that takes another name may have read the row of the first, but
\* not if it takes it at once.
Moves(m, n) ==
  LET s == Scripts[m][n]
  IN /\ n \in Tasks[m]
     /\ \E i \in DOMAIN s : s[i].op = "mint" /\ (i # 1 \/ \E j \in DOMAIN s : i \in Onto(s, j))

\* Whether query e may have that answer.  (A task may have read another row.)
Answered(m, n, c, e, x, yes) ==
  /\ e.op = "need"   /\ e.on \in c.rows => (yes <=> OwnIn(x, e.on) # None)
  /\ e.op = "fresh"  /\ e.on \in c.rows => (yes <=> OwnIn(x, e.on) = None)
  /\ e.op = "is" /\ e.on \in c.rows /\ ~Moves(m, n) /\ OwnIn(x, e.on) # "twice" =>
       LET v == WordIn(c, e.val)
       IN IF yes THEN OwnIn(x, e.on) = v ELSE v # "other" => OwnIn(x, e.on) # v
  /\ e.op = "has"    /\ e.on \in c.on => (yes <=> x.thing[e.on] # None)
  /\ e.op = "lacks"  /\ e.on \in c.on => (yes <=> x.thing[e.on] = None)
  /\ e.op = "shows"  /\ e.on \in c.on /\ e.val = "broken" => (yes <=> x.thing[e.on] = "broken")
  /\ e.op = "listed" /\ e.on \in c.on /\ x.line[e.on] # Unread => (yes <=> x.line[e.on] # None)
Queries == {"need", "fresh", "room", "is", "has", "lacks", "shows", "listed"}

\* What a step writes, and what a call leaves of the thing it is about.
Gives(c, e, x) ==
  CASE e.val = Asked -> {x.asked}
    [] e.val \in {Kept, Found} -> RowsOf(c)
    [] OTHER -> {WordIn(c, e.val)}
Remains(c, e, x) ==
  IF e.on \notin c.on THEN {None}
  ELSE IF e.op = "make" /\ x.thing[e.on] # None THEN {x.thing[e.on]}
  ELSE CASE e.op \in {"make", "new", "put", "change", "save"} -> {Shown(v) : v \in Gives(c, e, x)}
         [] e.op \in {"drop", "wipe"}  -> {None}
         [] e.op = "count" -> {WordIn(c, IF x.thing[e.on] = None THEN "one" ELSE "full")}
         [] e.op = "mirror" -> IF e.val \in c.on /\ x.line[e.val] # Unread THEN {x.line[e.val]} ELSE ThingsOf(c)
         [] OTHER -> IF e.val \in c.on THEN {x.thing[e.val]}
                     ELSE {v \in ThingsOf(c) : e.op = "move" => v # None}
Called(c, e, x) ==
  {Known([t \in c.on |-> IF e.op = "move" /\ t = e.val THEN None
                         ELSE IF t = e.on THEN v
                         ELSE IF e.op = "save" /\ FileOf(t) = FileOf(e.on) THEN x.line[t]
                         ELSE x.thing[t]],
         x.com, x.mine, x.asked,
         [t \in c.on |-> IF t # e.on \/ e.op \notin {"save", "wipe", "mirror"} THEN x.line[t]
                         ELSE IF e.op = "save" THEN v
                         ELSE IF e.op = "mirror" /\ e.val = t THEN x.line[t]
                         ELSE Unread]) : v \in Remains(c, e, x)}
\* Whether it may be impossible, and whether it may not.
CalledFor(c, e, x, yes) ==
  /\ e.op = "new"    /\ e.on \in c.on  => (yes <=> x.thing[e.on] = None)
  /\ e.op = "change" /\ e.on \in c.on  => (yes <=> x.thing[e.on] # None)
  /\ e.op = "move"   /\ e.val \in c.on => (yes <=> x.thing[e.val] # None)
  /\ e.op \notin {"new", "change", "move"} => yes

\* What is flushed.  A task may have read another row than it updates.
RowOps == {"insert", "add", "update", "rekey", "delete", "clear"}
Sending(m, c, e, x, v) ==
  Known(x.thing, x.com,
        [t \in c.rows |-> IF t = e.on THEN v
                          ELSE IF e.op \in {"delete", "clear"} /\ RowIn(m, t) = e.on THEN None
                          ELSE x.mine[t]], x.asked, x.line)
Sends(c, e, x) == IF OwnIn(x, e.on) = "twice" THEN {"twice"} ELSE Gives(c, e, x)
FlushedIn(m, n, c, e, x) ==
  IF e.on \notin c.rows THEN {x, Sending(m, c, e, x, None)}
  ELSE CASE e.op = "insert" -> {Sending(m, c, e, x, v) : v \in {w \in Gives(c, e, x) : OwnIn(x, e.on) = None}}
         [] e.op = "add" ->
              {Sending(m, c, e, x, v) :
                 v \in IF OwnIn(x, e.on) = "twice" \/ x.com[e.on] # None THEN {"twice"} ELSE Gives(c, e, x)}
         [] e.op = "update" ->
              {Sending(m, c, e, x, v) : v \in Sends(c, e, x)}
                \cup {y \in {x} : OwnIn(x, e.on) \in Sends(c, e, x) \/ Moves(m, n)}
         [] e.op = "rekey" -> {Sending(m, c, e, x, v) : v \in Sends(c, e, x)}
         [] OTHER ->
              IF OwnIn(x, e.on) = None THEN {x}
              ELSE {Sending(m, c, e, x, IF OwnIn(x, e.on) = "twice" /\ e.op = "delete"
                                        THEN WordIn(c, "there") ELSE None)}

\* The lines of a file that is read, or made of the rows.
Lines(c, e, x) ==
  [t \in c.on |->
     IF FileOf(t) # FileOf(e.on) THEN x.line[t]
     ELSE IF e.op = "read" THEN x.thing[t]
     ELSE IF t \in c.follows THEN Shown(OwnIn(x, t)) ELSE Unread]

\* How a name may be that nobody has used.
Unnamed(c, e) == {r \in c.rest : e.on \in c.rows => r.row[e.on] = None}

\* What may be known when step e of handler n was done, and when it was not.
Did(m, n, c, e, x) ==
  CASE e.op \in Queries -> {y \in {x} : Answered(m, n, c, e, x, TRUE)}
    [] e.op \in Changes -> {y \in Called(c, e, x) : CalledFor(c, e, x, TRUE)}
    [] e.op \in RowOps  -> FlushedIn(m, n, c, e, x)
    [] e.op = "commit"  -> {AtRestIn(c, OverIn(c, x), x.asked, x.line)}
    [] e.op \in {"read", "collect"} -> {Known(x.thing, x.com, x.mine, x.asked, Lines(c, e, x))}
    [] e.op = "mint" /\ n \in Tasks[m] -> {AtRestIn(c, r, x.asked, NoLine(c)) : r \in Unnamed(c, e)}
    [] OTHER -> {y \in {x} : e.op # "jump"}
\* A call that fails may have been made; nobody has changed what was read.
Failed(m, n, c, e, x) ==
  CASE e.op \in Queries -> {y \in {x} : Answered(m, n, c, e, x, FALSE)}
    [] e.op \in Changes ->
         {y \in {x} : CalledFor(c, e, x, FALSE)}
           \cup {y \in {x} \cup {[z EXCEPT !.line = NoLine(c)] : z \in Called(c, e, x)} :
                   CalledFor(c, e, x, TRUE) /\ "call" \in c.bears}
    [] e.op \in {"read", "spawn"} -> {y \in {x} : "call" \in c.bears}
    [] e.op = "insert" -> {y \in {x} : e.on \in c.rows => OwnIn(x, e.on) # None}
    [] e.op \in {"jump", "mint"} -> {x}
    [] OTHER -> {}
-----------------------------------------------------------------------------
\* A request may ask for what is watched if that is no word of the handlers.
AskedIn(m, n, c) ==
  IF \E i \in DOMAIN Scripts[m][n] : Scripts[m][n][i].val = Asked
  THEN IF c.watch THEN {"this", "other"} ELSE {"other"}
  ELSE {None}
AtStart(m, n, c) == {AtRestIn(c, r, a, FirstLine(c)) : r \in c.rest, a \in AskedIn(m, n, c)}

\* What is known at the steps of handler n of kind m.
KnownAt(m, n, c) ==
  LET s == Scripts[m][n]
      lands == LandsIn(s)
      first == AtStart(m, n, c)
      start == [j \in 1 .. Len(s) + 1 |-> IF j \in lands[1] THEN first ELSE {}]
      step(at, i) ==
        LET did    == UNION {Did(m, n, c, s[i], x) : x \in at[i]}
            failed == UNION {Failed(m, n, c, s[i], x) : x \in at[i]}
        IN [j \in 1 .. Len(s) + 1 |->
              at[j] \cup (IF j \in lands[i + 1] THEN did ELSE {})
                    \cup (IF s[i].or # 0 /\ j \in lands[i + s[i].or] THEN failed ELSE {})]
  IN FoldLeftDomain(step, start, s)

\* What the step does to other names' things leaves them as they shall be,
\* and it takes another name only when nothing is open.
Fits(m, n, c, e, x) ==
  /\ e.op = "wipe" => e.on \notin c.on \/ c.alone
  /\ e.op = "mirror" /\ e.on \in c.on =>
       \/ c.alone
       \/ /\ e.val \in c.on /\ x.line[e.val] # Unread
          /\ \A r \in c.rest : [r EXCEPT !.thing[e.on] = r.thing[e.val]] \in c.rest
  /\ e.op = "save" => \A t \in c.on : FileOf(t) = FileOf(e.on) => x.line[t] # Unread
  /\ e.op \in {"delete", "clear"} => e.val = None
  /\ e.op = "mint" /\ n \in Tasks[m] => BackIn(x) \in c.rest /\ x.mine = [t \in c.rows |-> Same]

\* How it ends: as it returns, or without its rows.
Outcomes(m, n, c) ==
  LET s  == Scripts[m][n]
      at == KnownAt(m, n, c)
      out(i, x) ==
        (IF "crash" \in c.bears THEN {BackIn(x)} ELSE {})
          \cup (IF s[i].op = "mint" /\ n \in Tasks[m] THEN {BackIn(x)} ELSE {})
          \cup (IF s[i].or = 0 \/ s[i].op \in RowOps
                THEN {BackIn(y) : y \in Failed(m, n, c, s[i], x)} ELSE {})
  IN {OverIn(c, x) : x \in at[Len(s) + 1]}
       \cup UNION {UNION {out(i, x) : x \in at[i]} : i \in DOMAIN s}

\* Whatever handler n does, c is kept.
Keeps(m, n, c) ==
  LET s  == Scripts[m][n]
      at == KnownAt(m, n, c)
      lands == LandsIn(s)
  IN /\ \A j \in lands[1] : AtStart(m, n, c) \subseteq at[j]
     /\ \A x \in at[Len(s) + 1] : OverIn(c, x) \in c.rest
     /\ \A i \in 1 .. Len(s) + 1 : \A x \in at[i] :
          /\ x.thing \in c.always
          /\ "crash" \in c.bears => BackIn(x) \in c.rest
     /\ \A i \in 1 .. Len(s) : \A x \in at[i] :
          /\ Fits(m, n, c, s[i], x)
          /\ \A j \in lands[i + 1] : Did(m, n, c, s[i], x) \subseteq at[j]
          /\ \A y \in Failed(m, n, c, s[i], x) :
               IF s[i].or = 0 \/ s[i].op \in RowOps THEN BackIn(y) \in c.rest
               ELSE \A j \in lands[i + s[i].or] : y \in at[j]
-----------------------------------------------------------------------------
(* The promises as concerns. *)

\* What refers to b is there only if b is.
Refer(m, pairs, b) == {ab[1] : ab \in {cd \in pairs[m] : cd[2] = b}}
Upheld(on, b, refer) == {f \in [on -> PlainThings] : \A a \in refer : f[a] # None => f[b] # None}
Reference(m, b) ==
  LET on == Refer(m, Supports, b) \cup {b}
      good == Upheld(on, b, Refer(m, Supports, b))
  IN Concern(on, {}, good, [thing : good, row : [{} -> PlainRows]], {"call", "crash"})

\* One that rests on more: a runtime application has its unit when it has
\* its row.
RowsToo == [runtime |-> {"unit"}]
For(f, m) == IF m \in DOMAIN f THEN f[m] ELSE {}
CalmReference(m, b) ==
  LET on   == Refer(m, CalmSupports, b) \cup {b}
      inRows == For(RowsToo, m)
      good == Upheld(on, b, Refer(m, CalmSupports, b))
  IN Concern(on, inRows, good,
             {r \in [thing : good, row : [inRows -> {None, "off", "other"}]] :
                \A t \in inRows : r.row[t] # None => r.thing[t] # None}, {})

\* A row without a thing: columns have theirs when the row has.
Backing(m, t) ==
  LET inRows == {t, RowIn(m, t)}
      row == [inRows -> IF inRows \cap AddedIn(m) = {} THEN PlainRows \ {"twice"} ELSE PlainRows]
  IN Concern({t}, inRows, [{t} -> PlainThings],
             {r \in [thing : [{t} -> PlainThings], row : row] :
                r.row[t] # None => r.thing[t] # None /\ r.row[RowIn(m, t)] # None}, {"call"})

\* What is moved over sshd's configuration is not broken.
Tested ==
  LET on == {"sshd", "candidate"}
      good == {f \in [on -> PlainThings] : f["sshd"] # "broken"}
  IN Concern(on, {}, good, [thing : good, row : [{} -> PlainRows]], {"call", "crash"})

\* Those that watch a value look at what the handlers make of a name from
\* the beginning on, in so many rounds that there is nothing more.
WordsIn(m, tables) ==
  {"there", "one", "full"} \cup
    UNION {{Scripts[m][n][i].val : i \in {j \in DOMAIN Scripts[m][n] : Scripts[m][n][j].on \in tables}} :
             n \in DOMAIN Scripts[m]}
AtFirst(m, c) ==
  [thing |-> [t \in c.on |-> WordIn(c, IF t \in Given[m] THEN "there" ELSE None)],
   row   |-> [t \in c.rows |-> WordIn(c, IF t \in Given[m] THEN "there" ELSE None)]]
Rounds == [i \in 1 .. 6 |-> i]
Reached(m, c) ==
  LET more(rest, i) ==
        rest \cup UNION {Outcomes(m, n, [c EXCEPT !.rest = rest]) : n \in DOMAIN Scripts[m]}
  IN FoldLeft(more, {AtFirst(m, c)}, Rounds)
Watching(m, on, inRows, follows) ==
  LET blank == Concern(on, inRows, {}, {}, {})
      named == [blank EXCEPT !.words = WordsIn(m, on \cup inRows), !.watch = TRUE,
                             !.follows = follows, !.alone = (m = "zones")]
      c == [named EXCEPT !.always = [on -> ThingsOf(named)]]
  IN [c EXCEPT !.rest = Reached(m, c)]

\* A thing and its row, with what the handlers look at to change them.
WithThing == [running |-> {"unit"}, quarantine |-> {"infected"}, web |-> {"web_new"},
              user |-> {"useradd"}, login |-> {"user", "useradd"}]
WithRow   == [zones |-> {"zone"}]
Following(m, t) ==
  Watching(m, {t} \cup (For(WithThing, t) \cap TablesIn(m)), {t, RowIn(m, t)} \cup For(WithRow, m), {t})

\* Things made from one another, for apache with the row that decides it.
WithTwins == [apache |-> {"link"}, proxied |-> {"link"}, envweb |-> {"web_new"}]
Twinned(m) ==
  Watching(m, (UNION {{ab[1], ab[2]} : ab \in Twins[m]}) \cup For(WithTwins, m),
           IF m = "apache" THEN {"domain"} ELSE {}, {})

Moded(m) == Watching(m, {"meta", "mode", "waf_mode"}, {}, {})
Modes == {"waf", "agent_waf"}

Concerns(m) ==
  {Reference(m, ab[2]) : ab \in Supports[m]}
    \cup {CalmReference(m, ab[2]) : ab \in CalmSupports[m]}
    \cup {Backing(m, t) : t \in Backed[m]}
    \cup {Tested : x \in {m} \cap {"ssh"}}
    \cup {Following(m, t) : t \in Followed[m]}
    \cup {Twinned(m) : ab \in Twins[m]}
    \cup {Moded(m) : x \in {m} \cap Modes}
-----------------------------------------------------------------------------
(* What holds whoever else is at work rests on what a handler has locked,  *)
(* and on what it has come by.                                             *)

\* A mark is a value that a handler gives a column before it works on the
\* things in "over", and takes back before it commits.
Deploying == [on |-> "status", val |-> "deploying", over |-> {"tree", "build", "hook"}]
MarkOf(c, v) == IF v = Same THEN "same" ELSE IF v = c.val THEN "marked" ELSE "changed"
Marks(m, c, e, x) ==
  CASE e.op = "update" /\ e.on = c.on ->
         IF e.val = c.val THEN {"marked", "changed"}
         ELSE (IF x = "marked" THEN {} ELSE {x}) \cup {"changed"}
    [] e.op \in {"delete", "clear"} /\ RowIn(m, c.on) = e.on -> {x, "changed"}
    [] e.op = "commit" -> {"same"}
    [] OTHER -> {x}
MarkedAt(m, n, c) ==
  LET s == Scripts[m][n]
      lands == LandsIn(s)
      start == [j \in 1 .. Len(s) + 1 |-> IF j \in lands[1] THEN {"same"} ELSE {}]
      step(at, i) ==
        [j \in 1 .. Len(s) + 1 |->
           at[j] \cup (IF j \in lands[i + 1] THEN UNION {Marks(m, c, s[i], x) : x \in at[i]} ELSE {})
                 \cup (IF s[i].or # 0 /\ j \in lands[i + s[i].or] THEN at[i] ELSE {})]
  IN FoldLeftDomain(step, start, s)

\* Handler n works on those things with the mark locked, and commits without it.
MarksFirst(m, n, c) ==
  LET s == Scripts[m][n]
      lands == LandsIn(s)
      at == MarkedAt(m, n, c)
  IN /\ \A j \in lands[1] : "same" \in at[j]
     /\ "marked" \notin at[Len(s) + 1]
     /\ \A i \in DOMAIN s :
          /\ s[i].op = "commit" => "marked" \notin at[i]
          /\ s[i].op \in Changes /\ s[i].on \in c.over => "same" \notin at[i]
          /\ s[i].op \in RowOps /\ s[i].on = c.on => s[i].op = "update" /\ s[i].val \notin {Asked, Kept, Found}
          /\ s[i].op = "add" => s[i].on # RowIn(m, c.on)
          /\ \A x \in at[i] :
               /\ \A j \in lands[i + 1] : Marks(m, c, s[i], x) \subseteq at[j]
               /\ s[i].or # 0 => \A j \in lands[i + s[i].or] : x \in at[j]

\* The steps behind one of these; whether they are reached only by it, and
\* whether nothing leads from them to the others.
Past(s, ops, t) == {j \in 1 .. Len(s) + 1 : \E i \in DOMAIN s : i < j /\ s[i].op \in ops /\ s[i].on = t}
OnlyBy(s, ops, t) ==
  LET lands == LandsIn(s)
      past == Past(s, ops, t)
  IN /\ lands[1] \cap past = {}
     /\ \A i \in DOMAIN s \ past :
          /\ (s[i].op \in ops /\ s[i].on = t) \/ lands[i + 1] \cap past = {}
          /\ s[i].or = 0 \/ lands[i + s[i].or] \cap past = {}
Closed(s, past) ==
  LET lands == LandsIn(s)
  IN \A i \in DOMAIN s \cap past :
       lands[i + 1] \subseteq past /\ (s[i].or # 0 => lands[i + s[i].or] \subseteq past)

\* Handler n looks at the quota before it adds a row to t, and switches a row
\* off or removes it otherwise.
CountsFirst(m, n, t) ==
  LET s == Scripts[m][n]
      counted == Past(s, {"room"}, t)
      changed == Past(s, RowOps, t)
  IN /\ OnlyBy(s, {"room"}, t)
     /\ Closed(s, counted) /\ Closed(s, changed)
     /\ \A i \in DOMAIN s :
          /\ s[i].op # "commit" /\ (s[i].op = "mint" => n \notin Tasks[m])
          /\ s[i].on = t =>
               /\ s[i].op # "add"
               /\ s[i].op = "room" => i \notin changed
               /\ s[i].op = "insert" => i \in counted
               /\ s[i].op \in {"update", "rekey"} => s[i].val = "off"
               /\ s[i].op \in {"delete", "clear"} => s[i].val = None
               /\ s[i].op \in RowOps => LandsIn(s)[i + 1] \subseteq changed
-----------------------------------------------------------------------------
\* What a request asks for is no word of the handlers' own.
ASSUME WordsAssumption ==
  /\ Answers \cap {None, "off", "broken", "twice", Same, Unread} = {}
  /\ \A m \in DOMAIN Scripts : \A n \in DOMAIN Scripts[m] : \A i \in DOMAIN Scripts[m][n] :
       Scripts[m][n][i].val \notin {Same, Unread}
\* The kinds are HostHive's, which handlers they have is left open.
ASSUME KindsAssumption == Kinds \subseteq DOMAIN Scripts \cap DOMAIN Handlers

\* Each handler, alone, keeps what concerns its tables.  (What is watched is
\* no word of the steps on them, and a request asks for none of them.)
ASSUME HandlersKeepConcerns ==
  \A m \in DOMAIN Scripts \cap DOMAIN Handlers : \A c \in Concerns(m) :
    /\ c.on \cup c.rows \subseteq TablesIn(m) \ Singles[m] /\ c.follows \subseteq c.on \cap c.rows
    /\ c.words \cap (Answers \cup {"this", "other"}) = {}
    /\ c.watch => WordsIn(m, c.on \cup c.rows) \subseteq c.words
    /\ AtFirst(m, c) \in c.rest
    /\ \A r \in c.rest : \A t \in c.follows : r.thing[t] = Shown(r.row[t])
    /\ \A n \in DOMAIN Scripts[m] : Keeps(m, n, c)
\* What they leave is what was promised.
ASSUME HandlersKeepTwins ==
  \A m \in DOMAIN Scripts \cap DOMAIN Handlers :
    /\ \A ab \in Twins[m] :
         ~Twinned(m).alone /\ \A r \in Twinned(m).rest : r.thing[ab[1]] = r.thing[ab[2]]
    /\ m \in Modes => \A r \in Moded(m).rest :
         r.thing["meta"] # None => r.thing["waf_mode"] = r.thing["mode"]
\* Deployments are marked, quotas are looked at.
ASSUME DeploysAreMarked ==
  \A m \in DOMAIN Scripts \cap {"git"} :
    /\ {Deploying.on, RowIn(m, Deploying.on)} \cap (Singles[m] \cup Given[m]) = {}
    /\ Deploying.on \in TablesIn(m)
    /\ \A n \in DOMAIN Scripts[m] : MarksFirst(m, n, Deploying)
ASSUME QuotasAreCounted ==
  \A m \in DOMAIN Scripts \cap DOMAIN Handlers : \A t \in Quotas[m] :
    /\ t \in TablesIn(m) /\ t \notin Singles[m] \cup Given[m] \cup DOMAIN Columns[m]
    /\ \A n \in DOMAIN Scripts[m] : CountsFirst(m, n, t)
=============================================================================
