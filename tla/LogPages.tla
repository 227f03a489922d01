------------------------------ MODULE LogPages ------------------------------
(***************************************************************************)
(* internal/logs: the output of every instance goes to pages of bounded    *)
(* size, which are trimmed oldest first to a number of days and a number   *)
(* of bytes, while writers append, the policy changes, files disappear,    *)
(* removals fail and the process restarts.                                 *)
(*                                                                         *)
(* A write call holds the manager's mutex over its whole loop, so Trim,    *)
(* Configure, Release and Close run between calls; a crash and a lost file *)
(* come anywhere. One line is one call. Sizes are small numbers of bytes.  *)
(***************************************************************************)
EXTENDS Naturals, FiniteSetsExt

CONSTANTS
    Ids,          \* instance identities, numbered in the order of their names
    Header,       \* [Ids -> size of the frontmatter of a page]
    Policies,     \* records [days, file, total]
    Lines,        \* the lengths of the lines written
    MaxSeq,       \* 999999, the pages of an instance and day
    None,         \* nil
    MaxCalls,     \* bound on write calls; a call's number is its time
    MaxDay,       \* bound on days
    MaxFaults,    \* bound on failing system calls and lost files
    MaxRestarts   \* bound on ends of the process

ASSUME LogAssumption ==
    /\ Ids \subseteq Nat
    /\ Header \in [Ids -> Nat \ {0}] /\ Lines \subseteq Nat \ {0}
    /\ Policies \subseteq [days : Nat \ {0}, file : Nat \ {0}, total : Nat \ {0}]
    /\ \A p \in Policies : p.total >= p.file
    /\ {MaxSeq, MaxCalls, MaxDay, MaxFaults, MaxRestarts} \subseteq Nat

VARIABLES
    \* --- Manager
    pages,     \* m.pages: records [name, size, created, written], with the call
               \* that made the page as history: [made]
    current,   \* m.current: the name of the page an instance writes to
    open,      \* the names of the pages with a file handle
    total,     \* m.total
    policy,    \* m.policy
    disk,      \* the names of the files in the directory
    \* --- the write call in progress, and the clock
    writer, calls, day,
    faults, restarts

store == <<pages, current, open, total, disk>>
vars  == <<store, policy, writer, calls, day, faults, restarts>>

Names == [id : Ids, day : 0..MaxDay, seq : 1..MaxSeq]
Idle  == [pc |-> "idle"]

Bytes(ps)     == MapThenSumSet(LAMBDA p : p.size, ps)
NamesOf(ps)   == {p.name : p \in ps}
PageOf(name)  == CHOOSE p \in pages : p.name = name
Fault         == faults < MaxFaults /\ faults' = faults + 1

Init ==
    /\ pages = {} /\ current = [i \in Ids |-> None] /\ open = {} /\ total = 0
    /\ policy \in Policies
    /\ disk = {}
    /\ writer = Idle /\ calls = 0 /\ day = 0
    /\ faults = 0 /\ restarts = 0

-----------------------------------------------------------------------------
(* trim                                                                     *)

\* Names sort by instance, day and number.
Before(n, o) == \/ n.id < o.id
                \/ n.id = o.id /\ n.day < o.day
                \/ n.id = o.id /\ n.day = o.day /\ n.seq < o.seq

\* By creation time, then by name.
OlderFirst(p, q) == p.created < q.created \/ (p.created = q.created /\ Before(p.name, q.name))

Due(p, pol, today) == p.name.day + pol.days < today \/ p.size > pol.file

\* The pages trim(now, reserve) removes under a policy: those that are due, and,
\* oldest first, those that are not within the budget with all that is newer.
\* (The loop's running sum only falls: behind the first page that it keeps,
\* nothing is removed for the budget.)
Doomed(pol, today, reserve) ==
    {p \in pages : \/ Due(p, pol, today)
                   \/ Bytes({q \in pages : ~OlderFirst(q, p)}) + reserve > pol.total}

\* Mutant: the page stays the current one of its instance.
DropPages(gone, closed) ==
    /\ pages' = pages \ gone
    /\ disk' = disk \ NamesOf(gone)
    /\ open' = open \ (NamesOf(gone) \cup closed)
    /\ total' = total - Bytes(gone)
    /\ UNCHANGED current

\* What removing pages does to the store.
RemovePages(gone, closed) ==
    /\ pages' = pages \ gone
    /\ disk' = disk \ NamesOf(gone)
    /\ open' = open \ (NamesOf(gone) \cup closed)
    /\ total' = total - Bytes(gone)
    /\ current' = [i \in Ids |-> IF current[i] \in NamesOf(gone) THEN None ELSE current[i]]

\* trim, with the names of the handles its caller has closed.
Trimmed(pol, today, reserve, closed) == RemovePages(Doomed(pol, today, reserve), closed)

\* A removal fails: the pages before it are gone, its handle is closed.
TrimFails(pol, today, reserve, closed) ==
    LET doomed == Doomed(pol, today, reserve)
    IN  /\ Fault
        /\ \E p \in doomed :
              RemovePages({q \in doomed : OlderFirst(q, p)}, closed \cup {p.name})

-----------------------------------------------------------------------------
(* write: one line of one instance, under the mutex.                        *)

Begin(i, length) ==
    /\ writer = Idle /\ calls < MaxCalls
    /\ calls' = calls + 1
    /\ writer' = [pc |-> "page", id |-> i, left |-> length, now |-> calls', day |-> day]
    /\ UNCHANGED <<store, policy, day, faults, restarts>>

At(pc)    == writer.pc = pc
Goto(pc)  == writer' = [writer EXCEPT !.pc = pc]
Own       == current[writer.id]
OwnPage   == PageOf(Own)
OwnOpen   == open \cap {Own}
External  == <<policy, calls, day, restarts>>

\* Otherwise there is no page yet, it is of another day, or full.
HasRoom   == Own # None /\ Own.day = writer.day /\ OwnPage.size < policy.file

\* The old page is closed and the budget makes room for a frontmatter.
Roll ==
    /\ At("page") /\ ~HasRoom
    /\ Header[writer.id] < policy.file
    /\ \/ Trimmed(policy, writer.day, Header[writer.id], OwnOpen) /\ Goto("create") /\ UNCHANGED faults
       \/ TrimFails(policy, writer.day, Header[writer.id], OwnOpen) /\ writer' = Idle
    /\ UNCHANGED External

\* The frontmatter would fill the page: the line is dropped.
RollRefused ==
    /\ At("page") /\ ~HasRoom
    /\ Header[writer.id] >= policy.file
    /\ RemovePages({}, OwnOpen) /\ writer' = Idle
    /\ UNCHANGED <<External, faults>>

FreeNumbers == {n \in 1..MaxSeq : \A p \in pages :
                    p.name # [id |-> writer.id, day |-> writer.day, seq |-> n]}

\* The lowest number that is free names the page.
Create ==
    /\ At("create") /\ FreeNumbers # {}
    /\ LET name == [id |-> writer.id, day |-> writer.day, seq |-> Min(FreeNumbers)]
           size == Header[writer.id]
       IN  /\ pages' = pages \cup {[name |-> name, size |-> size, created |-> writer.now,
                                    written |-> writer.now, made |-> writer.now]}
           /\ current' = [current EXCEPT ![writer.id] = name]
           /\ open' = open \cup {name}
           /\ disk' = disk \cup {name}
           /\ total' = total + size
    /\ Goto("page")
    /\ UNCHANGED <<External, faults>>

\* The file cannot be created, or its frontmatter not written and it is removed
\* again; or no number is free.
CreateFails ==
    /\ At("create")
    /\ \/ Fault
       \/ FreeNumbers = {} /\ UNCHANGED faults
    /\ writer' = Idle
    /\ UNCHANGED <<store, External>>

\* Mutant: the bytes of a file that disappeared stay counted.
ReopenUncounted ==
    /\ At("page") /\ HasRoom /\ Own \notin open
    /\ IF Own \in disk
       THEN open' = open \cup {Own} /\ UNCHANGED <<pages, current, total, disk>>
       ELSE /\ pages' = pages \ {OwnPage} /\ current' = [current EXCEPT ![writer.id] = None]
            /\ UNCHANGED <<total, open, disk>>
    /\ UNCHANGED <<External, writer, faults>>

\* A page whose handle was closed is opened again, or given up if it is gone.
Reopen ==
    /\ At("page") /\ HasRoom /\ Own \notin open
    /\ IF Own \in disk
       THEN open' = open \cup {Own} /\ UNCHANGED <<pages, current, total, disk>>
       ELSE RemovePages({OwnPage}, {})
    /\ UNCHANGED <<External, writer, faults>>

ReopenFails ==
    /\ At("page") /\ HasRoom /\ Own \notin open
    /\ Own \in disk /\ Fault /\ writer' = Idle
    /\ UNCHANGED <<store, External>>

Chunk   == Min({writer.left, policy.file - OwnPage.size})
Ready   == At("page") /\ HasRoom /\ Own \in open
Fits    == total + Chunk <= policy.total
MayAppend == At("append") \/ (Ready /\ Fits)

\* The budget makes room for the next bytes. If that costs the page they were
\* meant for, the loop starts over.
MakeRoom ==
    /\ Ready /\ ~Fits
    /\ \/ /\ Trimmed(policy, writer.day, Chunk, {}) /\ UNCHANGED faults
          /\ Goto(IF current'[writer.id] = Own THEN "append" ELSE "page")
       \/ TrimFails(policy, writer.day, Chunk, {}) /\ writer' = Idle
    /\ UNCHANGED External

\* n bytes reach the file.
Written(n) ==
    /\ pages' = (pages \ {OwnPage}) \cup
                {[OwnPage EXCEPT !.size = @ + n, !.written = writer.now]}
    /\ total' = total + n
    /\ UNCHANGED <<current, open, disk>>

\* Mutant: nobody looks at the budget.
AppendAnyway ==
    /\ Ready
    /\ Written(Chunk)
    /\ writer' = IF Chunk = writer.left THEN Idle
                 ELSE [writer EXCEPT !.pc = "page", !.left = @ - Chunk]
    /\ UNCHANGED <<External, faults>>

\* Mutant: what was written is written again.
AppendAgain ==
    /\ MayAppend
    /\ Written(Chunk)
    /\ writer' = IF Chunk = writer.left THEN Idle ELSE [writer EXCEPT !.pc = "page"]
    /\ UNCHANGED <<External, faults>>

AppendBytes ==
    /\ MayAppend
    /\ Written(Chunk)
    /\ writer' = IF Chunk = writer.left THEN Idle
                 ELSE [writer EXCEPT !.pc = "page", !.left = @ - Chunk]
    /\ UNCHANGED <<External, faults>>

\* A full disk: some of the bytes are written, the rest of the line is dropped.
AppendFails ==
    /\ MayAppend
    /\ Fault /\ \E n \in 0..(Chunk - 1) : Written(n)
    /\ writer' = Idle
    /\ UNCHANGED External

WriteStep == \/ Roll \/ RollRefused \/ Create \/ CreateFails
             \/ Reopen \/ ReopenFails \/ MakeRoom \/ AppendBytes \/ AppendFails

-----------------------------------------------------------------------------
(* Between two writes.                                                      *)

\* Trim, of the ticker and before an apply.
Trim ==
    /\ writer = Idle
    /\ \/ Trimmed(policy, day, 0, {}) /\ UNCHANGED faults
       \/ TrimFails(policy, day, 0, {})
    /\ UNCHANGED <<writer, External>>

\* Configure: the new policy is in force even when trimming to it fails.
Configure(p) ==
    /\ writer = Idle /\ p # policy
    /\ policy' = p
    /\ \/ Trimmed(p, day, 0, {}) /\ UNCHANGED faults
       \/ TrimFails(p, day, 0, {})
    /\ UNCHANGED <<writer, calls, day, restarts>>

\* Release: an instance has stopped.
Release(i) ==
    /\ writer = Idle /\ current[i] \in open
    /\ RemovePages({}, {current[i]})
    /\ UNCHANGED <<writer, faults, External>>

\* Close, when the supervisor ends; late output may still come.
Close ==
    /\ writer = Idle /\ open # {}
    /\ RemovePages({}, open)
    /\ UNCHANGED <<writer, faults, External>>

\* Mutant: a page is as old as the process that found it.
RestartStamped ==
    /\ restarts < MaxRestarts /\ restarts' = restarts + 1
    /\ LET found == {[p EXCEPT !.created = Max({1, calls})] : p \in {q \in pages : q.name \in disk}}
       IN  /\ pages' = found /\ total' = Bytes(found)
    /\ current' = [i \in Ids |-> None] /\ open' = {}
    /\ writer' = [pc |-> "start"]
    /\ UNCHANGED <<disk, policy, calls, day, faults>>

\* The process ends, also inside a write, and New scans the directory: a page
\* is as old as its file. Trim follows; if it fails, so does the start, and
\* the next one scans what is left.
Restart ==
    /\ restarts < MaxRestarts /\ restarts' = restarts + 1
    /\ LET found == {[p EXCEPT !.created = p.written] : p \in {q \in pages : q.name \in disk}}
       IN  /\ pages' = found /\ total' = Bytes(found)
    /\ current' = [i \in Ids |-> None] /\ open' = {}
    /\ writer' = [pc |-> "start"]
    /\ UNCHANGED <<disk, policy, calls, day, faults>>

Start ==
    /\ At("start")
    /\ \/ Trimmed(policy, day, 0, {}) /\ UNCHANGED faults /\ writer' = Idle
       \/ TrimFails(policy, day, 0, {}) /\ UNCHANGED writer
    /\ UNCHANGED External

\* Somebody removes a file.
FileLost ==
    /\ Fault /\ \E name \in disk : disk' = disk \ {name}
    /\ UNCHANGED <<pages, current, open, total, writer, External>>

Midnight ==
    /\ day < MaxDay /\ day' = day + 1
    /\ UNCHANGED <<store, policy, writer, calls, faults, restarts>>

Next ==
    \/ \E i \in Ids, n \in Lines : Begin(i, n)
    \/ WriteStep
    \/ Trim \/ Close \/ Restart \/ Start \/ FileLost \/ Midnight
    \/ \E p \in Policies : Configure(p)
    \/ \E i \in Ids : Release(i)

Spec == Init /\ [][Next]_vars

\* Nothing inside a write call waits for anything but the file system.
FairSpec == Spec /\ WF_vars(WriteStep)

-----------------------------------------------------------------------------
TypeOK ==
    /\ pages \subseteq [name : Names, size : Nat, created : 1..MaxCalls, written : 1..MaxCalls,
                        made : 1..MaxCalls]
    /\ current \in [Ids -> Names \cup {None}]
    /\ open \subseteq Names /\ disk \subseteq Names /\ total \in Nat
    /\ policy \in Policies
    /\ calls \in 0..MaxCalls /\ day \in 0..MaxDay
    /\ faults \in 0..MaxFaults /\ restarts \in 0..MaxRestarts

\* The running total that every write trusts is the sum of the pages, and no
\* file is in the directory that the manager does not count: failed trims, lost
\* files and interrupted writes leave neither.
Accounted ==
    /\ TypeOK
    /\ total = Bytes(pages)
    /\ disk \subseteq NamesOf(pages)

\* A page that trimming removed, or that was full or of another day, is nobody's
\* current page and its handle is closed: no write goes to a removed file, and
\* no handle is left open but those of the current pages.
HandlesCurrent ==
    /\ \A i \in Ids : current[i] # None => current[i] \in NamesOf(pages) /\ current[i].id = i
    /\ \A name \in open : current[name.id] = name

OnDisk == {p \in pages : p.name \in disk}

\* Output takes more of the disk only within the total size, and a page grows
\* only within the size of a page, whatever the policy was when it was created.
BudgetKept ==
    [][/\ Bytes(OnDisk') > Bytes(OnDisk) => Bytes(OnDisk') <= policy'.total
       /\ \A p \in pages' : p.size <= policy'.file \/ \E q \in pages : q.name = p.name /\ q.size = p.size
      ]_vars

\* The pages a step gives up for the budget: their files were there, and they were
\* not due.
GivenUp ==
    {p \in pages \ pages' :
        /\ p.name \notin NamesOf(pages') /\ p.name \in disk
        /\ ~Due(p, policy', IF writer.pc \in {"idle", "start"} THEN day ELSE writer.day)}

\* No page is given up for the budget while a page is kept that an earlier line made
\* and that was last written earlier, whatever restarts, which take the age of a page
\* from its file, lie between. (Of two pages of one line it says nothing: see
\* CurrentKept.)
OldestFirst ==
    [][\A p \in GivenUp, q \in pages \cap pages' : ~(q.made < p.made /\ q.written < p.written)]_vars

\* The page an instance writes to, which is its newest, is not given up for the budget
\* while an older one of it is kept. (It is: the pages of one line have one time, and
\* the newest takes the lowest number that is free.)
CurrentKept ==
    [][\A p \in GivenUp, q \in pages \cap pages' :
          p.name = current[p.name.id] => q.name.id # p.name.id]_vars

\* A write ends: it leaves the mutex that every other instance needs.
WriteEnds == writer.pc \notin {"idle", "start"} ~> writer.pc \in {"idle", "start"}
=============================================================================
