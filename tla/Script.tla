------------------------------- MODULE Script -------------------------------
(***************************************************************************)
(* The steps that the handlers of HostHive are made of.  A handler works   *)
(* on one name: a mailbox, a database, a container.  A table has one row   *)
(* per name, and the system (a daemon, a file of a daemon, Docker, ...)    *)
(* has one thing per name.  A step names the table it is about (the thing  *)
(* goes by the name of the table that describes it), a value and, under    *)
(* "or", how many steps to go forward when it fails or refuses; 0 is an    *)
(* exception that leaves the handler, so that get_db rolls back.           *)
(***************************************************************************)
EXTENDS Naturals, Sequences

Step(op, table, value) == [op |-> op, on |-> table, val |-> value, or |-> 0]

(* Values that are only known when the step runs. *)
Asked == "asked"     \* what the request brings
Kept  == "kept"      \* what the row said when it was loaded
Found == "found"     \* what the system says
None  == "none"      \* no row, no thing, no setting

(* Queries.  Need is the 404 and loads the row, Fresh the 409, Room the    *)
(* quota of active rows, Mint a new primary key; Is goes on when the row   *)
(* has the value.                                                          *)
Need(t)    == Step("need", t, None)
Fresh(t)   == Step("fresh", t, None)
Room(t)    == Step("room", t, None)
Mint(t)    == Step("mint", t, None)
Is(t, S)   == Step("is", t, S)

(* Changes of rows, flushed to the database where they stand.  Update      *)
(* sends nothing when the value is the one that was loaded; Rekey stores   *)
(* a salted hash or a ciphertext, which always differs.  Add inserts into  *)
(* a table without a unique index: the second row makes the name "twice".  *)
(* Delete removes the row that was loaded, Clear all rows of the name.     *)
Insert(t, v) == Step("insert", t, v)
Add(t, v)    == Step("add", t, v)
Update(t, v) == Step("update", t, v)
Rekey(t, v)  == Step("rekey", t, v)
Delete(t)    == Step("delete", t, None)
Clear(t)     == Step("clear", t, None)
Commit       == Step("commit", "", None)

(* Calls to the system.  Make leaves what is there (IF NOT EXISTS), New    *)
(* fails on it (docker run --name), Put replaces it, Change fails without  *)
(* it, Drop does not mind its absence, Wipe removes the things of all      *)
(* names, Count is INCR: one, then full; Has and Lacks look whether it is  *)
(* there, Shows what it is.                                                *)
Make(t, v)   == Step("make", t, v)
New(t, v)    == Step("new", t, v)
Put(t, v)    == Step("put", t, v)
Change(t, v) == Step("change", t, v)
Drop(t)      == Step("drop", t, None)
Wipe(t)      == Step("wipe", t, None)
Count(t)     == Step("count", t, None)
Has(t)       == Step("has", t, None)
Lacks(t)     == Step("lacks", t, None)
Shows(t, v)  == Step("shows", t, v)

(* A file with a line per name, read as a whole and written as a whole:    *)
(* Read takes the lines from the file, Collect from the rows; Listed looks *)
(* for this name's line in them, Save writes them with that line changed,  *)
(* SaveAll as they are; Mirror writes the lines of one table to another's  *)
(* things.  Copy makes the thing of this name what another table's is;     *)
(* Move takes it there, and fails when there is none.                      *)
Read(t)      == Step("read", t, None)
Collect(t)   == Step("collect", t, None)
Listed(t)    == Step("listed", t, None)
Save(t, v)   == Step("save", t, v)
SaveAll(t)   == Step("mirror", t, t)
Mirror(t, from) == Step("mirror", t, from)
Copy(t, from)   == Step("copy", t, from)
Move(t, from)   == Step("move", t, from)

(* A task sent to Celery. *)
Spawn(job)   == Step("spawn", "", job)

(* try: body except: pass.  A failure anywhere in it goes on behind it. *)
Try(body) == [i \in 1 .. Len(body) |->
                IF body[i].or = 0 THEN [body[i] EXCEPT !.or = Len(body) - i + 1] ELSE body[i]]

Jump(n) == [Step("jump", "", None) EXCEPT !.or = n]
Raise   == Step("jump", "", None)

(* if test: yes else: no, where the test is a step that may refuse. *)
IfElse(test, yes, no) ==
  <<[test EXCEPT !.or = Len(yes) + 2]>> \o yes \o <<Jump(Len(no) + 1)>> \o no
When(test, yes)   == <<[test EXCEPT !.or = Len(yes) + 1]>> \o yes
Unless(test, no)  == IfElse(test, << >>, no)

(* try: body except: undo; raise. *)
OrUndo(body, undo) ==
  [i \in 1 .. Len(body) |->
     IF body[i].or = 0 THEN [body[i] EXCEPT !.or = Len(body) - i + 2] ELSE body[i]]
    \o <<Jump(Len(undo) + 2)>> \o undo \o <<Raise>>

(* try: body except: failed else: done. *)
TryElse(body, failed, done) ==
  [i \in 1 .. Len(body) |->
     IF body[i].or = 0 THEN [body[i] EXCEPT !.or = Len(body) - i + 2] ELSE body[i]]
    \o <<Jump(Len(failed) + 2)>> \o failed \o <<Jump(Len(done) + 1)>> \o done

(* One or the other, for a reason that is not modelled. *)
Choice == Step("maybe", "", None)
Maybe(body)     == When(Choice, body)
Either(yes, no) == IfElse(Choice, yes, no)

(* A command whose return code is only reported: one that fails goes on,   *)
(* one that takes longer than the timeout of subprocess.run raises.        *)
Reported(body) == Either(Try(body), body)
=============================================================================
