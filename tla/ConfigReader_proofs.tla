---------------------------- MODULE ConfigReader_proofs ----------------------------
(***************************************************************************)
(* The reader of ConfigReader and what a file declares by ConfigFile: what *)
(* has been built after n lines is what the first n lines declare.  Lemmas *)
(* about the steps of the reader, for every file; DaZeus_proofs has the    *)
(* theorems, for the process that reads files again and again.             *)
(***************************************************************************)
EXTENDS ConfigReader, Ranks_proofs

-----------------------------------------------------------------------------
(* The control of the reader.                                              *)

\* The start of a section that a network ignores.
Ignored(f, n) ==
  \E i \in 1 .. n : f[i].call = "open" /\ f[i].what # "server" /\ Inside(f, i) = "network"

Before(f, kind, n) == {i \in Opened(f, kind) : i <= n}

\* The sections that are open after n lines, and those in progress.
OpenAfter(f, n) ==
  {"root", Inside(f, n + 1)} \union (IF Inside(f, n + 1) = "server" THEN {"network"} ELSE {})

InProgress(f, n) ==
  OpenAfter(f, n) \union (IF Before(f, "database", n) = {} THEN {} ELSE {"database"})

\* The first n lines are as Nested wants them.
NestedTo(f, n) ==
  /\ \A i \in 1 .. n : Allowed(f, i)
  /\ \A i, j \in Before(f, "database", n) : i = j
  /\ \A i \in Before(f, "plugin", n) : f[i].value # ""

Follows(f, n) ==
  /\ NestedTo(f, n)
  /\ section = Inside(f, n + 1)
  /\ section = "database" => Before(f, "database", n) # {}
  /\ DOMAIN progress = InProgress(f, n)

ReaderTypes ==
  /\ section \in Sections \union {"root"}
  /\ outcome \in {"unread", "reading", "read", "exception", "abort"}
  /\ isRead \in BOOLEAN
  /\ isRead => outcome = "read"
  /\ outcome # "unread" => {"root", section} \subseteq DOMAIN progress
  /\ section = "server" => "network" \in DOMAIN progress

ControlInv ==
  /\ ReaderTypes
  /\ outcome = "reading" =>
       /\ file \in File \ {Missing}
       /\ at \in 0 .. Len(file)
       /\ Ignored(file, at) \/ Follows(file, at)
  /\ outcome \in {"exception", "abort"} => file = Missing \/ ~WellFormed(file)
  /\ outcome = "read" =>
       /\ file \in File \ {Missing}
       /\ Ignored(file, Len(file)) \/ Nested(file)

-----------------------------------------------------------------------------
(* The contents.                                                           *)

\* Sections that are closed on a line up to n.
Closed(f, kind, n) ==
  {i \in Opened(f, kind) : \E j \in i + 1 .. n : f[j].call = "close" /\ f[j].what = kind}

Start(f, kind, n) == Latest(Before(f, kind, n))

\* All sections are closed but those that are open, each at its last start.
Shape(f, n) ==
  /\ \A kind \in Sections \ OpenAfter(f, n) : Before(f, kind, n) \subseteq Closed(f, kind, n)
  /\ \A kind \in OpenAfter(f, n) \ {"root"} :
       \E s \in Before(f, kind, n) :
         /\ \A i \in Before(f, kind, n) : i <= s
         /\ s \notin Closed(f, kind, n)
         /\ Before(f, kind, n) \ {s} \subseteq Closed(f, kind, n)
  /\ Inside(f, n + 1) = "server" => Start(f, "network", n) < Start(f, "server", n)

\* What the first n lines declare.
ServerTo(f, i, n) ==
  [Blank(None) EXCEPT !.options = Values(f, "server", LinesOf(f, i) \intersect (1 .. n))]

ServersIn(f, i) ==
  {j \in Opened(f, "server") :
     j > i /\ \A k \in Opened(f, "network") : ~(i < k /\ k < j)}

ServersTo(f, i, n) ==
  LET servers == InOrder(ServersIn(f, i) \intersect Closed(f, "server", n))
  IN [m \in DOMAIN servers |-> ServerTo(f, servers[m], n)]

Lines(f, kind, i) == IF kind = "network" THEN NetworkLines(f, i) ELSE LinesOf(f, i)

SectionTo(f, kind, i, n) ==
  [name    |-> f[i].value,
   options |-> Values(f, kind, Lines(f, kind, i) \intersect (1 .. n)),
   servers |-> IF kind = "network" THEN ServersTo(f, i, n) ELSE <<>>]

SectionsTo(f, kind, n) ==
  LET starts == InOrder(Closed(f, kind, n))
  IN [m \in DOMAIN starts |-> SectionTo(f, kind, starts[m], n)]

Listing == {"socket", "network", "plugin"}

\* What p and l hold is what the first n lines declare.
Holds(p, l, f, n) ==
  /\ p["root"] = [Blank("") EXCEPT !.options = Values(f, "root", RootLines(f, n))]
  /\ \A kind \in InProgress(f, n) \ {"root", "server"} :
       p[kind] = SectionTo(f, kind, Start(f, kind, n), n)
  /\ Inside(f, n + 1) = "server" => p["server"] = ServerTo(f, Start(f, "server", n), n)
  /\ DOMAIN l = Listing
  /\ \A kind \in Listing : l[kind] = SectionsTo(f, kind, n)

Built(f, n) == Holds(progress, listed, f, n)

ContentInv ==
  /\ outcome = "reading" /\ Nested(file) => Shape(file, at) /\ Built(file, at)
  /\ isRead /\ Nested(file) => config = Declared(file)

-----------------------------------------------------------------------------
(* Positions in a file.                                                    *)

IsFile(f) ==
  /\ Len(f) \in Nat
  /\ \A i \in 1 .. Len(f) :
       \/ f[i].call = "option"
       \/ f[i].call \in {"open", "close"} /\ f[i].what \in Sections

LEMMA FilesAreFiles == \A f \in File \ {Missing} : IsFile(f)
BY FileAssumption DEF IsFile

LEMMA LatestIs ==
  ASSUME NEW S \in SUBSET Nat, NEW i \in S, \A j \in S : j <= i
  PROVE  Latest(S) = i
<1>1. \A k \in S : (\A j \in S : j <= k) => k = i
      OBVIOUS
<1> QED BY <1>1 DEF Latest

LEMMA InsideFirst == ASSUME NEW f, IsFile(f) PROVE Inside(f, 1) = "root"
<1>1. {j \in Brackets(f) : j < 1} = {}
      BY DEF Brackets, IsFile
<1> QED BY <1>1 DEF Inside

\* The section after a line is the one before it unless the line is a bracket.
LEMMA InsideNext ==
  ASSUME NEW f, IsFile(f), NEW i \in 1 .. Len(f)
  PROVE  /\ f[i].call = "option" => Inside(f, i + 1) = Inside(f, i)
         /\ f[i].call = "open" => Inside(f, i + 1) = f[i].what
         /\ f[i].call = "close" =>
              Inside(f, i + 1) = IF f[i].what = "server" THEN "network" ELSE "root"
<1>0. Len(f) \in Nat
      BY DEF IsFile
<1>1. CASE f[i].call = "option"
  <2>1. {j \in Brackets(f) : j < i + 1} = {j \in Brackets(f) : j < i}
        BY <1>0, <1>1 DEF Brackets
  <2> QED BY <1>1, <2>1 DEF Inside
<1>2. CASE f[i].call # "option"
  <2> DEFINE S == {j \in Brackets(f) : j < i + 1}
  <2>1. S \in SUBSET Nat /\ i \in S /\ \A j \in S : j <= i
        BY <1>0, <1>2 DEF Brackets
  <2>2. Latest(S) = i
    <3> HIDE DEF S
    <3> QED BY <2>1, LatestIs
  <2>3. S # {}
        BY <2>1
  <2>4. Inside(f, i + 1) = IF f[i].call = "open" THEN f[i].what
                           ELSE IF f[i].what = "server" THEN "network" ELSE "root"
        BY <2>2, <2>3 DEF Inside
  <2> QED BY <1>2, <2>4
<1> QED BY <1>1, <1>2

LEMMA BeforeNext ==
  ASSUME NEW f, IsFile(f), NEW n \in Nat, n < Len(f), NEW kind
  PROVE  Before(f, kind, n + 1) =
           IF f[n + 1].call = "open" /\ f[n + 1].what = kind
           THEN Before(f, kind, n) \union {n + 1} ELSE Before(f, kind, n)
BY DEF Before, Opened, IsFile

LEMMA BeforeNone ==
  ASSUME NEW f, IsFile(f), NEW kind PROVE Before(f, kind, 0) = {}
BY DEF Before, Opened, IsFile

LEMMA BeforeAll ==
  ASSUME NEW f, IsFile(f), NEW kind PROVE Before(f, kind, Len(f)) = Opened(f, kind)
BY DEF Before, Opened, IsFile

LEMMA IgnoredNext ==
  ASSUME NEW f, NEW n \in Nat, Ignored(f, n) PROVE Ignored(f, n + 1)
BY DEF Ignored

\* A file with such a start is not well-formed.
LEMMA IgnoredNotNested ==
  ASSUME NEW f, IsFile(f), NEW n \in 0 .. Len(f), Ignored(f, n)
  PROVE  ~Nested(f)
<1>1. PICK i \in 1 .. n :
        f[i].call = "open" /\ f[i].what # "server" /\ Inside(f, i) = "network"
      BY DEF Ignored
<1>2. i \in 1 .. Len(f)
      BY DEF IsFile
<1>3. ~Allowed(f, i)
      BY <1>1 DEF Allowed
<1> QED BY <1>2, <1>3 DEF Nested

LEMMA NestedToFirst ==
  ASSUME NEW f, IsFile(f) PROVE NestedTo(f, 0) /\ InProgress(f, 0) = {"root"}
<1>1. 0 + 1 = 1 /\ 1 .. 0 = {}
      OBVIOUS
<1>2. Inside(f, 0 + 1) = "root"
      BY <1>1, InsideFirst
<1>3. \A kind : Before(f, kind, 0) = {}
      BY BeforeNone
<1> QED BY <1>1, <1>2, <1>3 DEF NestedTo, InProgress, OpenAfter

LEMMA UpToNext == \A n \in Nat : \A i \in 1 .. n + 1 : i \in 1 .. n \/ i = n + 1
OBVIOUS

LEMMA NestedToNext ==
  ASSUME NEW f, IsFile(f), NEW n \in Nat, n < Len(f), NestedTo(f, n), Allowed(f, n + 1),
         f[n + 1].call = "open" /\ f[n + 1].what = "database" => Before(f, "database", n) = {},
         f[n + 1].call = "open" /\ f[n + 1].what = "plugin" => f[n + 1].value # ""
  PROVE  NestedTo(f, n + 1)
<1>1. \A i \in 1 .. n + 1 : i \in 1 .. n \/ i = n + 1
      BY UpToNext
<1>2. \A i \in 1 .. n + 1 : Allowed(f, i)
      BY <1>1 DEF NestedTo
<1>3. \A i, j \in Before(f, "database", n + 1) : i = j
      BY BeforeNext, ZenonT(40) DEF NestedTo
<1>4. \A i \in Before(f, "plugin", n + 1) : f[i].value # ""
      BY BeforeNext DEF NestedTo
<1> QED BY <1>2, <1>3, <1>4 DEF NestedTo

\* What is in progress after another line.
LEMMA InProgressNext ==
  ASSUME NEW f, IsFile(f), NEW n \in Nat, n < Len(f), Allowed(f, n + 1),
         Inside(f, n + 1) = "database" => Before(f, "database", n) # {}
  PROVE  /\ f[n + 1].call = "option" => InProgress(f, n + 1) = InProgress(f, n)
         /\ f[n + 1].call = "open" =>
              InProgress(f, n + 1) = InProgress(f, n) \union {f[n + 1].what}
         /\ f[n + 1].call = "close" =>
              InProgress(f, n + 1) =
                IF f[n + 1].what = "database" THEN InProgress(f, n)
                ELSE InProgress(f, n) \ {f[n + 1].what}
<1>1. n + 1 \in 1 .. Len(f) /\ (n + 1) + 1 = (n + 1) + 1
      BY DEF IsFile
<1>2. CASE f[n + 1].call = "option"
  <2>1. Inside(f, (n + 1) + 1) = Inside(f, n + 1)
        BY <1>1, <1>2, InsideNext
  <2>2. Before(f, "database", n + 1) = Before(f, "database", n)
        BY <1>2, BeforeNext
  <2> QED BY <1>2, <2>1, <2>2 DEF InProgress, OpenAfter
<1>3. CASE f[n + 1].call = "open"
  <2>1. Inside(f, (n + 1) + 1) = f[n + 1].what
        BY <1>1, <1>3, InsideNext
  <2>2. Inside(f, n + 1) = IF f[n + 1].what = "server" THEN "network" ELSE "root"
        BY <1>3 DEF Allowed
  <2>3. Before(f, "database", n + 1) = IF f[n + 1].what = "database"
                                       THEN Before(f, "database", n) \union {n + 1}
                                       ELSE Before(f, "database", n)
        BY <1>3, BeforeNext
  <2> QED BY <1>3, <2>1, <2>2, <2>3 DEF InProgress, OpenAfter
<1>4. CASE f[n + 1].call = "close"
  <2>1. Inside(f, (n + 1) + 1) = IF f[n + 1].what = "server" THEN "network" ELSE "root"
        BY <1>1, <1>4, InsideNext
  <2>2. Inside(f, n + 1) = f[n + 1].what /\ f[n + 1].what \in Sections
        BY <1>1, <1>4 DEF Allowed, IsFile
  <2>3. Before(f, "database", n + 1) = Before(f, "database", n)
        BY <1>4, BeforeNext
  <2> QED BY <1>4, <2>1, <2>2, <2>3 DEF InProgress, OpenAfter, Sections
<1> QED BY <1>1, <1>2, <1>3, <1>4 DEF IsFile

-----------------------------------------------------------------------------
(* The steps of the reader: control.                                       *)

LEMMA StartReadControl ==
  ASSUME NEW f \in File, StartRead(f) PROVE ControlInv'
<1>1. /\ file' = f /\ at' = 0 /\ section' = "root" /\ DOMAIN progress' = {"root"}
      /\ isRead' = FALSE /\ outcome' = IF f = Missing THEN "exception" ELSE "reading"
      BY DEF StartRead
<1>2. ReaderTypes'
      BY <1>1 DEF ReaderTypes
<1>3. ASSUME f # Missing PROVE 0 \in 0 .. Len(f) /\ Follows(f, 0)'
  <2>1. IsFile(f)
        BY <1>3, FilesAreFiles
  <2>2. NestedTo(f, 0) /\ InProgress(f, 0) = {"root"} /\ Inside(f, 0 + 1) = "root"
        BY <2>1, NestedToFirst, InsideFirst
  <2> QED BY <1>1, <2>1, <2>2 DEF Follows, IsFile
<1> QED BY <1>1, <1>2, <1>3 DEF ControlInv

\* What every line has to do: the control of the reader does not depend on
\* what it does with a line that comes after one that is ignored.
LEMMA LineControl ==
  ASSUME ControlInv, Reading, Taken, ReaderTypes',
         \/ Error
         \/ outcome' = "reading",
         Follows(file, at) => IF outcome' = "exception" THEN ~WellFormed(file)
                              ELSE Ignored(file, at + 1) \/ Follows(file, at)'
  PROVE  ControlInv'
<1>1. /\ outcome = "reading" /\ at < Len(file) /\ file \in File \ {Missing}
      /\ at \in 0 .. Len(file) /\ IsFile(file) /\ Len(file) \in Nat
      BY FilesAreFiles DEF Reading, ControlInv, IsFile
<1>2. UNCHANGED <<file, isRead>> /\ at' = at + 1 /\ at + 1 \in 0 .. Len(file)
      BY <1>1 DEF Taken
<1>3. CASE Ignored(file, at)
  <2>1. Ignored(file, at + 1) /\ ~Nested(file)
        BY <1>1, <1>3, IgnoredNext, IgnoredNotNested
  <2> QED BY <1>1, <1>2, <2>1 DEF ControlInv, Error, WellFormed
<1>4. CASE Follows(file, at)
      BY <1>1, <1>2, <1>4 DEF ControlInv, Error
<1> QED BY <1>1, <1>3, <1>4 DEF ControlInv

LEMMA SectOpenControl ==
  ASSUME ControlInv, SectOpen PROVE ControlInv'
<1> DEFINE f == file
           n == at
<1>1. /\ outcome = "reading" /\ n < Len(f) /\ IsFile(f) /\ n \in Nat /\ Len(f) \in Nat
      /\ f[n + 1].call = "open" /\ f[n + 1].what \in Sections /\ Line = f[n + 1]
      /\ n + 1 \in 1 .. Len(f)
      BY FilesAreFiles DEF SectOpen, Reading, Line, ControlInv, IsFile
<1>2. ReaderTypes
      BY DEF ControlInv
<1>3. Reading /\ Taken
      BY DEF SectOpen
<1>4. isRead' = isRead
      BY <1>3 DEF Taken
<1>5. CASE (section = "root" /\ OpensInRoot(Line.what, Line.value)) \/
           (section = "network" /\ Line.what = "server")
  <2>1. PICK name : Enter(Line.what, name)
        BY <1>5 DEF SectOpen
  <2>2. /\ section' = f[n + 1].what /\ outcome' = "reading"
        /\ DOMAIN progress' = DOMAIN progress \union {f[n + 1].what}
        BY <1>1, <2>1 DEF Enter
  <2>3. ReaderTypes'
        BY <1>1, <1>2, <1>4, <1>5, <2>2 DEF ReaderTypes, OpensInRoot
  <2>4. ASSUME Follows(f, n) PROVE Follows(file, at)'
    <3>1. Allowed(f, n + 1)
          BY <1>1, <1>5, <2>4 DEF Allowed, Follows, OpensInRoot
    <3>2. f[n + 1].what = "database" => "database" \notin DOMAIN progress
          BY <1>1, <1>5 DEF OpensInRoot
    <3>3. f[n + 1].what = "database" => Before(f, "database", n) = {}
          BY <2>4, <3>2 DEF Follows, InProgress
    <3>4. f[n + 1].what = "plugin" => f[n + 1].value # ""
          BY <1>1, <1>5 DEF OpensInRoot
    <3>5. NestedTo(f, n + 1)
          BY <1>1, <2>4, <3>1, <3>3, <3>4, NestedToNext DEF Follows
    <3>6. InProgress(f, n + 1) = InProgress(f, n) \union {f[n + 1].what}
          BY <1>1, <2>4, <3>1, InProgressNext DEF Follows
    <3>7. Inside(f, (n + 1) + 1) = f[n + 1].what
          BY <1>1, InsideNext
    <3>8. f[n + 1].what = "database" => Before(f, "database", n + 1) # {}
          BY <1>1, BeforeNext
    <3>9. file' = file /\ at' = n + 1
          BY <1>3 DEF Taken
    <3>10. Follows(file, at)' <=>
             (/\ NestedTo(f, n + 1)
              /\ section' = Inside(f, (n + 1) + 1)
              /\ section' = "database" => Before(f, "database", n + 1) # {}
              /\ DOMAIN progress' = InProgress(f, n + 1))
          BY <3>9 DEF Follows
    <3> HIDE DEF f, n
    <3> QED BY <3>10, <2>2, <2>4, <3>5, <3>6, <3>7, <3>8, <3>9 DEF Follows
  <2> QED BY <1>3, <2>2, <2>3, <2>4, LineControl
<1>6. CASE section = "network" /\ Line.what # "server"
  <2>1. UNCHANGED <<building, outcome>>
        BY <1>6 DEF SectOpen
  <2>2. ReaderTypes'
        BY <1>2, <1>4, <2>1 DEF ReaderTypes, building
  <2>3. ASSUME Follows(f, n) PROVE Ignored(f, n + 1)
        BY <1>1, <1>6, <2>3 DEF Ignored, Follows
  <2> QED BY <1>1, <1>3, <2>1, <2>2, <2>3, LineControl
<1>7. CASE ~(section = "root" /\ OpensInRoot(Line.what, Line.value)) /\ section # "network"
  <2>1. Error
        BY <1>7 DEF SectOpen
  <2>2. ReaderTypes'
        BY <1>1, <1>2, <1>4, <2>1 DEF ReaderTypes, Error, building
  <2>3. ASSUME Follows(f, n) PROVE ~WellFormed(f)
    <3>1. CASE section # "root" \/ f[n + 1].what = "server"
      <4>1. ~Allowed(f, n + 1)
            BY <1>1, <1>7, <2>3, <3>1 DEF Follows, Allowed
      <4> QED BY <1>1, <4>1 DEF WellFormed, Nested
    <3>2. CASE f[n + 1].what = "database" /\ Before(f, "database", n) # {}
      <4>1. PICK i \in Before(f, "database", n) : TRUE
            BY <3>2
      <4>2. i # n + 1 /\ i \in Opened(f, "database") /\ n + 1 \in Opened(f, "database")
            BY <1>1, <3>2, <4>1 DEF Before, Opened
      <4>3. ~\E k \in Opened(f, "database") : Opened(f, "database") = {k}
            BY <4>2
      <4> QED BY <4>3 DEF WellFormed, Nested
    <3>3. CASE f[n + 1].what = "plugin" /\ f[n + 1].value = ""
      <4>1. n + 1 \in Opened(f, "plugin")
            BY <1>1, <3>3 DEF Opened
      <4> QED BY <3>3, <4>1 DEF WellFormed, Nested
    <3>4. "database" \in DOMAIN progress => section = "database" \/ Before(f, "database", n) # {}
          BY <2>3 DEF Follows, InProgress, OpenAfter
    <3> QED BY <1>1, <1>7, <3>1, <3>2, <3>3, <3>4 DEF OpensInRoot
  <2> QED BY <1>3, <2>1, <2>2, <2>3, LineControl DEF Error
<1> QED BY <1>5, <1>6, <1>7

LEMMA SectCloseControl ==
  ASSUME ControlInv, SectClose PROVE ControlInv'
<1> DEFINE f == file
           n == at
<1>1. /\ outcome = "reading" /\ n < Len(f) /\ IsFile(f) /\ n \in Nat /\ Len(f) \in Nat
      /\ f[n + 1].call = "close" /\ f[n + 1].what \in Sections /\ Line = f[n + 1]
      /\ n + 1 \in 1 .. Len(f)
      BY FilesAreFiles DEF SectClose, Reading, Line, ControlInv, IsFile
<1>2. ReaderTypes
      BY DEF ControlInv
<1>3. Reading /\ Taken
      BY DEF SectClose
<1>4. isRead' = isRead
      BY <1>3 DEF Taken
<1>5. CASE f[n + 1].what = section
  <2>1. Leave(section) /\ section # "root"
        BY <1>1, <1>5 DEF SectClose, Sections
  <2>2. /\ section' = IF section = "server" THEN "network" ELSE "root"
        /\ outcome' = "reading"
        /\ DOMAIN progress' = IF section = "database" THEN DOMAIN progress
                              ELSE DOMAIN progress \ {section}
        BY <1>1, <2>1 DEF Leave, Without
  <2>3. ReaderTypes'
        BY <1>1, <1>2, <1>4, <2>1, <2>2 DEF ReaderTypes, Sections
  <2>4. ASSUME Follows(f, n) PROVE Follows(file, at)'
    <3>1. Allowed(f, n + 1)
          BY <1>1, <1>5, <2>4 DEF Allowed, Follows
    <3>2. NestedTo(f, n + 1)
          BY <1>1, <2>4, <3>1, NestedToNext DEF Follows
    <3>3. InProgress(f, n + 1) = IF f[n + 1].what = "database" THEN InProgress(f, n)
                                 ELSE InProgress(f, n) \ {f[n + 1].what}
          BY <1>1, <2>4, <3>1, InProgressNext DEF Follows
    <3>4. Inside(f, (n + 1) + 1) = IF f[n + 1].what = "server" THEN "network" ELSE "root"
          BY <1>1, InsideNext
    <3>5. file' = file /\ at' = n + 1
          BY <1>3 DEF Taken
    <3>10. Follows(file, at)' <=>
             (/\ NestedTo(f, n + 1)
              /\ section' = Inside(f, (n + 1) + 1)
              /\ section' = "database" => Before(f, "database", n + 1) # {}
              /\ DOMAIN progress' = InProgress(f, n + 1))
          BY <3>5 DEF Follows
    <3> HIDE DEF f, n
    <3> QED BY <3>10, <1>5, <2>2, <2>4, <3>2, <3>3, <3>4, <3>5 DEF Follows
  <2> QED BY <1>3, <2>2, <2>3, <2>4, LineControl
<1>6. CASE f[n + 1].what # section
  <2>1. Error
        BY <1>1, <1>6 DEF SectClose
  <2>2. ReaderTypes'
        BY <1>1, <1>2, <1>4, <2>1 DEF ReaderTypes, Error, building
  <2>3. ASSUME Follows(f, n) PROVE ~WellFormed(f)
    <3>1. ~Allowed(f, n + 1)
          BY <1>1, <1>6, <2>3 DEF Follows, Allowed
    <3> QED BY <1>1, <3>1 DEF WellFormed, Nested
  <2> QED BY <1>3, <2>1, <2>2, <2>3, LineControl DEF Error
<1> QED BY <1>5, <1>6

LEMMA SetOptionControl ==
  ASSUME ControlInv, SetOption PROVE ControlInv'
<1> DEFINE f == file
           n == at
<1>1. /\ outcome = "reading" /\ n < Len(f) /\ IsFile(f) /\ n \in Nat /\ Len(f) \in Nat
      /\ f[n + 1].call = "option" /\ Line = f[n + 1]
      /\ n + 1 \in 1 .. Len(f)
      BY FilesAreFiles DEF SetOption, Reading, Line, ControlInv, IsFile
<1>2. ReaderTypes
      BY DEF ControlInv
<1>3. Reading /\ Taken
      BY DEF SetOption
<1>4. isRead' = isRead
      BY <1>3 DEF Taken
<1>5. CASE Line.what \in OptionsOf(section) /\ ~RefusedValue(section, Line.what, Line.value)
  <2>1. Assign
        BY <1>5 DEF SetOption
  <2>2. UNCHANGED <<section, outcome>> /\ DOMAIN progress' = DOMAIN progress
        BY <2>1 DEF Assign
  <2>3. ReaderTypes'
        BY <1>2, <1>4, <2>2 DEF ReaderTypes
  <2>4. ASSUME Follows(f, n) PROVE Follows(file, at)'
    <3>1. Allowed(f, n + 1)
          BY <1>1, <1>5, <2>4 DEF Allowed, Follows
    <3>2. NestedTo(f, n + 1)
          BY <1>1, <2>4, <3>1, NestedToNext DEF Follows
    <3>3. InProgress(f, n + 1) = InProgress(f, n)
          BY <1>1, <2>4, <3>1, InProgressNext DEF Follows
    <3>4. Inside(f, (n + 1) + 1) = Inside(f, n + 1)
          BY <1>1, InsideNext
    <3>5. file' = file /\ at' = n + 1
          BY <1>3 DEF Taken
    <3>6. Before(f, "database", n + 1) = Before(f, "database", n)
          BY <1>1, BeforeNext
    <3>10. Follows(file, at)' <=>
             (/\ NestedTo(f, n + 1)
              /\ section' = Inside(f, (n + 1) + 1)
              /\ section' = "database" => Before(f, "database", n + 1) # {}
              /\ DOMAIN progress' = InProgress(f, n + 1))
          BY <3>5 DEF Follows
    <3> HIDE DEF f, n
    <3> QED BY <3>10, <2>2, <2>4, <3>2, <3>3, <3>4, <3>5, <3>6 DEF Follows
  <2> QED BY <1>1, <1>3, <2>2, <2>3, <2>4, LineControl
<1>6. CASE ~(Line.what \in OptionsOf(section) /\ ~RefusedValue(section, Line.what, Line.value))
  <2>1. Error
        BY <1>6 DEF SetOption
  <2>2. ReaderTypes'
        BY <1>1, <1>2, <1>4, <2>1 DEF ReaderTypes, Error, building
  <2>3. ASSUME Follows(f, n) PROVE ~WellFormed(f)
    <3>1. ~Allowed(f, n + 1)
          BY <1>1, <1>6, <2>3 DEF Follows, Allowed
    <3> QED BY <1>1, <3>1 DEF WellFormed, Nested
  <2> QED BY <1>3, <2>1, <2>2, <2>3, LineControl DEF Error
<1> QED BY <1>5, <1>6

LEMMA EndOfFileControl ==
  ASSUME ControlInv, EndOfFile PROVE ControlInv'
<1> DEFINE f == file
           n == at
<1>1. /\ outcome = "reading" /\ n = Len(f) /\ IsFile(f) /\ Len(f) \in Nat
      /\ f \in File \ {Missing}
      BY FilesAreFiles DEF EndOfFile, ControlInv, IsFile
<1>2. ReaderTypes /\ (Ignored(f, n) \/ Follows(f, n))
      BY <1>1 DEF ControlInv
<1>3. UNCHANGED <<file, at, section, progress, listed>>
      BY DEF EndOfFile, building
<1>4. ReaderTypes'
  <2>1. /\ outcome' \in {"read", "exception", "abort"}
        /\ isRead' = isRead \/ (isRead' = TRUE /\ outcome' = "read")
        BY DEF EndOfFile
  <2>2. isRead = FALSE
        BY <1>1, <1>2 DEF ReaderTypes
  <2> QED BY <1>1, <1>2, <1>3, <2>1, <2>2 DEF ReaderTypes
<1>5. CASE Ignored(f, n)
  <2>1. ~Nested(f)
        BY <1>1, <1>5, IgnoredNotNested
  <2> QED BY <1>1, <1>3, <1>4, <1>5, <2>1 DEF EndOfFile, ControlInv, WellFormed
<1>6. CASE Follows(f, n)
  <2>1. \A kind : Before(f, kind, n) = Opened(f, kind)
        BY <1>1, BeforeAll
  <2>2. /\ \A i \in 1 .. Len(f) : Allowed(f, i)
        /\ \A i, j \in Opened(f, "database") : i = j
        /\ \A i \in Opened(f, "plugin") : f[i].value # ""
        /\ section = Inside(f, Len(f) + 1)
        /\ DOMAIN progress = InProgress(f, n)
        /\ section = "database" => Opened(f, "database") # {}
        BY <1>1, <1>6, <2>1 DEF Follows, NestedTo
  <2>3. CASE "database" \notin DOMAIN progress
    <3>1. Opened(f, "database") = {}
          BY <2>1, <2>2, <2>3 DEF InProgress
    <3>2. ~WellFormed(f)
          BY <3>1 DEF WellFormed, Nested
    <3> QED BY <1>3, <1>4, <2>3, <3>2 DEF EndOfFile, ControlInv
  <2>4. CASE "database" \in DOMAIN progress /\ Unfinished
    <3>1. section # "root"
          BY <1>1, <2>2, <2>4 DEF Unfinished, InProgress, OpenAfter
    <3>2. ~WellFormed(f)
          BY <2>2, <3>1 DEF WellFormed
    <3> QED BY <1>3, <1>4, <2>4, <3>2 DEF EndOfFile, ControlInv
  <2>5. CASE "database" \in DOMAIN progress /\ ~Unfinished
    <3>1. section \in {"root", "database"}
          BY <1>1, <1>2, <2>5 DEF ReaderTypes, Unfinished
    <3>2. Opened(f, "database") # {}
          BY <1>1, <2>1, <2>2, <2>5, <3>1 DEF InProgress, OpenAfter
    <3>3. \E i \in Opened(f, "database") : Opened(f, "database") = {i}
          BY <2>2, <3>2
    <3>4. Nested(f)
          BY <2>2, <3>1, <3>3 DEF Nested
    <3> QED BY <1>1, <1>3, <1>4, <2>5, <3>4 DEF EndOfFile, ControlInv
  <2> QED BY <2>3, <2>4, <2>5
<1> QED BY <1>2, <1>5, <1>6

LEMMA ReadControl == ASSUME ControlInv, Read PROVE ControlInv'
BY SectOpenControl, SectCloseControl, SetOptionControl, EndOfFileControl DEF Read

LEMMA ControlKept == ASSUME ControlInv, UNCHANGED reader PROVE ControlInv'
BY DEF ControlInv, ReaderTypes, Follows, reader

-----------------------------------------------------------------------------
(* Sections that are open and closed.                                      *)

LEMMA ClosedNext ==
  ASSUME NEW f, IsFile(f), NEW n \in Nat, n < Len(f), NEW kind
  PROVE  Closed(f, kind, n + 1) =
           IF f[n + 1].call = "close" /\ f[n + 1].what = kind
           THEN Closed(f, kind, n) \union Before(f, kind, n) ELSE Closed(f, kind, n)
<1>0. Len(f) \in Nat /\ Opened(f, kind) \subseteq Nat
      BY DEF IsFile, Opened
<1>1. ASSUME NEW i \in Nat
      PROVE  \A j : j \in i + 1 .. n + 1 <=> j \in i + 1 .. n \/ (j = n + 1 /\ i <= n)
      OBVIOUS
<1>2. CASE f[n + 1].call = "close" /\ f[n + 1].what = kind
      BY <1>0, <1>1, <1>2 DEF Closed, Before
<1>3. CASE ~(f[n + 1].call = "close" /\ f[n + 1].what = kind)
      BY <1>0, <1>1, <1>3 DEF Closed
<1> QED BY <1>2, <1>3

LEMMA ClosedBefore ==
  ASSUME NEW f, IsFile(f), NEW n \in Nat, NEW kind
  PROVE  /\ Closed(f, kind, n) \subseteq Before(f, kind, n)
         /\ Closed(f, kind, n) \in SUBSET Nat
         /\ IsFiniteSet(Closed(f, kind, n))
<1>1. Len(f) \in Nat
      BY DEF IsFile
<1>2. \A i \in Nat : \A j \in i + 1 .. n : i <= n
      OBVIOUS
<1>3. Closed(f, kind, n) \subseteq Before(f, kind, n)
      BY <1>1, <1>2 DEF Closed, Before, Opened
<1>4. Closed(f, kind, n) \in SUBSET (1 .. Len(f)) /\ IsFiniteSet(1 .. Len(f))
      BY <1>1, FS_Interval DEF Closed, Opened
<1>5. IsFiniteSet(Closed(f, kind, n))
      BY <1>4, FS_Subset
<1> QED BY <1>1, <1>3, <1>4, <1>5

\* The section of a kind that is open after n lines starts on line s.
OpenSince(f, kind, n, s) ==
  /\ s \in Before(f, kind, n)
  /\ \A i \in Before(f, kind, n) : i <= s
  /\ s \notin Closed(f, kind, n)
  /\ Before(f, kind, n) \ {s} \subseteq Closed(f, kind, n)

LEMMA BeforeIsNat ==
  ASSUME NEW f, IsFile(f), NEW n, NEW kind PROVE Before(f, kind, n) \in SUBSET Nat
BY DEF Before, Opened, IsFile

LEMMA StartIs ==
  ASSUME NEW f, IsFile(f), NEW n \in Nat, NEW kind, NEW s \in Before(f, kind, n),
         \A i \in Before(f, kind, n) : i <= s
  PROVE  Start(f, kind, n) = s
BY BeforeIsNat, LatestIs DEF Start

LEMMA ShapeOpen ==
  ASSUME NEW f, IsFile(f), NEW n \in Nat, Shape(f, n), NEW kind \in OpenAfter(f, n) \ {"root"}
  PROVE  OpenSince(f, kind, n, Start(f, kind, n))
<1>1. PICK s \in Before(f, kind, n) : OpenSince(f, kind, n, s)
      BY DEF Shape, OpenSince
<1>2. Start(f, kind, n) = s
      BY <1>1, StartIs DEF OpenSince
<1> QED BY <1>1, <1>2

LEMMA ShapeFirst == ASSUME NEW f, IsFile(f) PROVE Shape(f, 0)
<1>1. Inside(f, 0 + 1) = "root"
      BY InsideFirst
<1>2. OpenAfter(f, 0) = {"root"}
      BY <1>1 DEF OpenAfter
<1>3. \A kind : Before(f, kind, 0) = {}
      BY BeforeNone
<1> QED BY <1>1, <1>2, <1>3 DEF Shape

LEMMA ShapeNext ==
  ASSUME NEW f, IsFile(f), NEW n \in Nat, n < Len(f), Shape(f, n), Allowed(f, n + 1),
         Inside(f, n + 1) \in Sections \union {"root"}
  PROVE  Shape(f, n + 1)
<1> DEFINE line == f[n + 1]
<1>1. n + 1 \in 1 .. Len(f) /\ Len(f) \in Nat
      BY DEF IsFile
<1>2. SUFFICES
        /\ \A kind \in Sections \ OpenAfter(f, n + 1) :
             Before(f, kind, n + 1) \subseteq Closed(f, kind, n + 1)
        /\ \A kind \in OpenAfter(f, n + 1) \ {"root"} :
             \E s : OpenSince(f, kind, n + 1, s)
        /\ Inside(f, (n + 1) + 1) = "server" =>
             Start(f, "network", n + 1) < Start(f, "server", n + 1)
      BY <1>2 DEF Shape, OpenSince
<1>3. \A kind \in OpenAfter(f, n) \ {"root"} : OpenSince(f, kind, n, Start(f, kind, n))
      BY ShapeOpen
<1>4. \A kind \in Sections \ OpenAfter(f, n) : Before(f, kind, n) \subseteq Closed(f, kind, n)
      BY DEF Shape
<1>5. Inside(f, n + 1) = "server" => Start(f, "network", n) < Start(f, "server", n)
      BY DEF Shape
<1>6. CASE line.call = "option"
  <2>1. Inside(f, (n + 1) + 1) = Inside(f, n + 1)
        BY <1>1, <1>6, InsideNext
  <2>2. \A kind : /\ Before(f, kind, n + 1) = Before(f, kind, n)
                  /\ Closed(f, kind, n + 1) = Closed(f, kind, n)
        BY <1>1, <1>6, BeforeNext, ClosedNext
  <2>3. OpenAfter(f, n + 1) = OpenAfter(f, n)
        BY <2>1 DEF OpenAfter
  <2>4. \A kind : Start(f, kind, n + 1) = Start(f, kind, n)
        BY <2>2 DEF Start
  <2> HIDE DEF line
  <2> QED BY <1>3, <1>4, <1>5, <2>1, <2>2, <2>3, <2>4 DEF OpenSince
<1>7. CASE line.call = "open"
  <2>1. Inside(f, (n + 1) + 1) = line.what /\ line.what \in Sections
        BY <1>1, <1>7, InsideNext DEF IsFile
  <2>2. Inside(f, n + 1) = IF line.what = "server" THEN "network" ELSE "root"
        BY <1>7 DEF Allowed
  <2>3. /\ \A kind : Closed(f, kind, n + 1) = Closed(f, kind, n)
        /\ \A kind : kind # line.what => Before(f, kind, n + 1) = Before(f, kind, n)
        /\ Before(f, line.what, n + 1) = Before(f, line.what, n) \union {n + 1}
        BY <1>1, <1>7, BeforeNext, ClosedNext
  <2>4. \A kind : \A i \in Before(f, kind, n) : i \in Nat /\ i <= n
        BY <1>1 DEF Before, Opened
  <2>5. line.what \notin OpenAfter(f, n) /\ line.what # "root"
        BY <2>1, <2>2 DEF OpenAfter, Sections
  <2>6. OpenSince(f, line.what, n + 1, n + 1)
    <3>1. \A i \in Before(f, line.what, n + 1) : i <= n + 1
          BY <2>3, <2>4
    <3>2. n + 1 \notin Closed(f, line.what, n)
          BY <2>4, ClosedBefore
    <3>3. Before(f, line.what, n) \subseteq Closed(f, line.what, n)
          BY <1>4, <2>1, <2>5
    <3> QED BY <2>3, <3>1, <3>2, <3>3 DEF OpenSince
  <2>7. line.what = "server" => OpenSince(f, "network", n + 1, Start(f, "network", n))
    <3>1. line.what = "server" => "network" \in OpenAfter(f, n) \ {"root"}
          BY <2>2 DEF OpenAfter
    <3> QED BY <1>3, <2>3, <3>1 DEF OpenSince
  <2>8. OpenAfter(f, n + 1) = {"root", line.what} \union
                              (IF line.what = "server" THEN {"network"} ELSE {})
        BY <2>1 DEF OpenAfter
  <2>9. ASSUME NEW kind \in Sections \ OpenAfter(f, n + 1)
        PROVE  Before(f, kind, n + 1) \subseteq Closed(f, kind, n + 1)
    <3>1. kind # line.what /\ kind \notin OpenAfter(f, n)
          BY <2>2, <2>8 DEF OpenAfter, Sections
    <3> QED BY <1>4, <2>3, <3>1
  <2>10. line.what = "server" => Start(f, "network", n + 1) < Start(f, "server", n + 1)
    <3> SUFFICES ASSUME line.what = "server"
                 PROVE  Start(f, "network", n + 1) < Start(f, "server", n + 1)
        OBVIOUS
    <3>1. Start(f, "server", n + 1) = n + 1
          BY <2>6, StartIs DEF OpenSince
    <3>2. Start(f, "network", n + 1) = Start(f, "network", n)
          BY <2>7, StartIs DEF OpenSince
    <3>3. Start(f, "network", n) \in Before(f, "network", n)
          BY <2>3, <2>7 DEF OpenSince
    <3>4. Start(f, "network", n) \in Nat /\ Start(f, "network", n) <= n
          BY <2>4, <3>3
    <3> QED BY <3>1, <3>2, <3>4
  <2> HIDE DEF line
  <2> QED BY <2>1, <2>6, <2>7, <2>8, <2>9, <2>10
<1>8. CASE line.call = "close"
  <2>1. Inside(f, (n + 1) + 1) = IF line.what = "server" THEN "network" ELSE "root"
        BY <1>1, <1>8, InsideNext
  <2>2. Inside(f, n + 1) = line.what /\ line.what \in Sections
        BY <1>1, <1>8 DEF Allowed, IsFile
  <2>3. /\ \A kind : Before(f, kind, n + 1) = Before(f, kind, n)
        /\ \A kind : kind # line.what => Closed(f, kind, n + 1) = Closed(f, kind, n)
        /\ Before(f, line.what, n) \subseteq Closed(f, line.what, n + 1)
        BY <1>1, <1>8, BeforeNext, ClosedNext
  <2>4. OpenAfter(f, n + 1) = IF line.what = "server" THEN {"root", "network"} ELSE {"root"}
        BY <2>1 DEF OpenAfter
  <2>5. OpenAfter(f, n) = IF line.what = "server" THEN {"root", "server", "network"}
                          ELSE {"root", line.what}
        BY <2>2 DEF OpenAfter
  <2>6. ASSUME NEW kind \in Sections \ OpenAfter(f, n + 1)
        PROVE  Before(f, kind, n + 1) \subseteq Closed(f, kind, n + 1)
    <3>1. CASE kind = line.what
          BY <2>3, <3>1
    <3>2. CASE kind # line.what
      <4>1. kind \notin OpenAfter(f, n)
            BY <2>4, <2>5, <3>2 DEF Sections
      <4> QED BY <1>4, <2>3, <3>2, <4>1
    <3> QED BY <3>1, <3>2
  <2>7. ASSUME NEW kind \in OpenAfter(f, n + 1) \ {"root"}
        PROVE  OpenSince(f, kind, n + 1, Start(f, kind, n))
    <3>1. kind = "network" /\ line.what = "server" /\ "network" \in OpenAfter(f, n) \ {"root"}
          BY <2>4, <2>5
    <3> QED BY <1>3, <2>3, <3>1 DEF OpenSince
  <2>8. Inside(f, (n + 1) + 1) # "server"
        BY <2>1
  <2> HIDE DEF line
  <2> QED BY <2>6, <2>7, <2>8
<1> QED BY <1>1, <1>6, <1>7, <1>8 DEF IsFile

-----------------------------------------------------------------------------
(* The option lines of sections.                                           *)

LEMMA LinesAreNat ==
  ASSUME NEW f, IsFile(f), NEW i \in Nat, NEW kind
  PROVE  /\ LinesOf(f, i) \in SUBSET Nat /\ \A j \in LinesOf(f, i) : j > i
         /\ RootLines(f, i) \in SUBSET Nat /\ \A j \in RootLines(f, i) : j <= i
         /\ Lines(f, kind, i) \in SUBSET Nat
<1>1. Len(f) \in Nat
      BY DEF IsFile
<1>2. LinesOf(f, i) \in SUBSET Nat /\ \A j \in LinesOf(f, i) : j > i
      BY <1>1 DEF LinesOf
<1>3. RootLines(f, i) \in SUBSET Nat /\ \A j \in RootLines(f, i) : j <= i
      BY DEF RootLines
<1> QED BY <1>2, <1>3 DEF Lines, NetworkLines

\* The next line belongs to no section but the one that is open.
LEMMA LinesStay ==
  ASSUME NEW f, IsFile(f), NEW n \in Nat, n < Len(f), Shape(f, n),
         NEW kind \in Sections, NEW i \in Before(f, kind, n),
         f[n + 1].call # "option" \/ Inside(f, n + 1) # kind \/ i # Start(f, kind, n)
  PROVE  /\ LinesOf(f, i) \intersect (1 .. n + 1) = LinesOf(f, i) \intersect (1 .. n)
         /\ Lines(f, kind, i) \intersect (1 .. n + 1) = Lines(f, kind, i) \intersect (1 .. n)
<1>1. i \in Opened(f, kind) /\ f[i].what = kind /\ i <= n /\ i \in Nat /\ Len(f) \in Nat
      BY DEF Before, Opened, IsFile
<1>2. n + 1 \notin LinesOf(f, i)
  <2> SUFFICES ASSUME f[n + 1].call = "option", Inside(f, n + 1) = kind
               PROVE  n + 1 \notin LinesOf(f, i)
      BY <1>1 DEF LinesOf
  <2>1. kind \in OpenAfter(f, n) \ {"root"}
        BY DEF OpenAfter, Sections
  <2>2. PICK s : s = Start(f, kind, n) /\ OpenSince(f, kind, n, s)
        BY <2>1, ShapeOpen
  <2>3. i # s /\ i <= s /\ s \in Opened(f, kind) /\ s <= n /\ s \in Nat
        BY <1>1, <2>2 DEF OpenSince, Before, Opened
  <2>4. i < s /\ s < n + 1
        BY <1>1, <2>3
  <2> QED BY <1>1, <2>3, <2>4 DEF LinesOf
<1>3. \A j \in 1 .. n + 1 : j \in 1 .. n \/ j = n + 1
      BY UpToNext
<1>4. 1 .. n \subseteq 1 .. n + 1
      OBVIOUS
<1>5. n + 1 \notin RootLines(f, i)
      BY <1>1 DEF RootLines
<1> QED BY <1>2, <1>3, <1>4, <1>5 DEF Lines, NetworkLines

LEMMA LinesGrow ==
  ASSUME NEW f, IsFile(f), NEW n \in Nat, n < Len(f), Shape(f, n),
         NEW kind \in Sections, f[n + 1].call = "option", Inside(f, n + 1) = kind
  PROVE  LET s == Start(f, kind, n)
         IN  /\ LinesOf(f, s) \intersect (1 .. n + 1)
                  = (LinesOf(f, s) \intersect (1 .. n)) \union {n + 1}
             /\ Lines(f, kind, s) \intersect (1 .. n + 1)
                  = (Lines(f, kind, s) \intersect (1 .. n)) \union {n + 1}
<1>1. kind \in OpenAfter(f, n) \ {"root"}
      BY DEF OpenAfter, Sections
<1>2. PICK s : s = Start(f, kind, n) /\ OpenSince(f, kind, n, s)
      BY <1>1, ShapeOpen
<1>3. /\ s \in Opened(f, kind) /\ f[s].what = kind /\ s <= n /\ s \in Nat /\ Len(f) \in Nat
      /\ \A k \in Opened(f, kind) : k \in Nat /\ (k <= n => k <= s)
      BY <1>2 DEF OpenSince, Before, Opened, IsFile
<1>4. n + 1 \in LinesOf(f, s)
  <2>1. n + 1 \in s + 1 .. Len(f)
        BY <1>3
  <2>2. \A k \in Opened(f, kind) : ~(s < k /\ k < n + 1)
        BY <1>3
  <2> QED BY <1>3, <2>1, <2>2 DEF LinesOf
<1>5. \A j : j \in 1 .. n + 1 <=> j \in 1 .. n \/ j = n + 1
      OBVIOUS
<1> QED BY <1>2, <1>4, <1>5 DEF Lines, NetworkLines

LEMMA LinesNone ==
  ASSUME NEW f, IsFile(f), NEW n \in Nat, n < Len(f)
  PROVE  LinesOf(f, n + 1) \intersect (1 .. n + 1) = {}
<1>1. PICK m \in Nat : m = n + 1
      OBVIOUS
<1>2. LinesOf(f, m) \in SUBSET Nat /\ \A j \in LinesOf(f, m) : j > m
      BY LinesAreNat
<1> QED BY <1>1, <1>2

LEMMA RootLinesNext ==
  ASSUME NEW f, IsFile(f), NEW n \in Nat, n < Len(f)
  PROVE  RootLines(f, n + 1) = IF f[n + 1].call = "option" /\ Inside(f, n + 1) = "root"
                               THEN RootLines(f, n) \union {n + 1} ELSE RootLines(f, n)
<1>1. \A j : j \in 1 .. n + 1 <=> j \in 1 .. n \/ j = n + 1
      OBVIOUS
<1> QED BY <1>1 DEF RootLines

-----------------------------------------------------------------------------
(* The values that lines give to options.                                  *)

\* Cutting a port to 16 bits changes neither the option nor what it sets.
LEMMA StoredKeeps ==
  ASSUME NEW kind, NEW option, NEW value
  PROVE  /\ Slot(option, Stored(kind, option, value)) = Slot(option, value)
         /\ SetsNothing(option, Stored(kind, option, value)) <=> SetsNothing(option, value)
BY DEF Stored, Slot, SetsNothing

LEMMA ValuesNone == ASSUME NEW f, NEW kind PROVE Values(f, kind, {}) = {}
BY DEF Values

\* One more line assigns its value.
LEMMA ValuesNext ==
  ASSUME NEW f, NEW kind, NEW L \in SUBSET Nat, NEW m \in Nat, \A j \in L : j < m
  PROVE  Values(f, kind, L \union {m}) =
           Assigned(Values(f, kind, L), f[m].what, Stored(kind, f[m].what, f[m].value))
<1> DEFINE slot(j) == Slot(f[j].what, f[j].value)
           none(j) == SetsNothing(f[j].what, f[j].value)
           pair(j) == <<slot(j), Stored(kind, f[j].what, f[j].value)>>
           setting(K) == {j \in K : ~none(j)}
           last(K) == {j \in setting(K) : \A k \in setting(K) : slot(k) = slot(j) => k <= j}
<1>1. \A K : Values(f, kind, K) = {pair(j) : j \in last(K)}
      BY DEF Values
<1>2. Assigned(Values(f, kind, L), f[m].what, Stored(kind, f[m].what, f[m].value)) =
        IF none(m) THEN Values(f, kind, L)
        ELSE {o \in Values(f, kind, L) : o[1] # slot(m)} \union {pair(m)}
      BY StoredKeeps DEF Assigned
<1>3. \A j : pair(j)[1] = slot(j)
      OBVIOUS
<1>4. \A j \in L : j \in Nat /\ j < m /\ ~(m <= j)
      OBVIOUS
<1>5. CASE none(m)
  <2>1. setting(L \union {m}) = setting(L)
        BY <1>5
  <2>2. last(L \union {m}) = last(L)
        BY <2>1
  <2> HIDE DEF pair, last, none
  <2> QED BY <1>1, <1>2, <1>5, <2>2
<1>6. CASE ~none(m)
  <2>1. setting(L \union {m}) = setting(L) \union {m} /\ setting(L) \subseteq L
        BY <1>6
  <2>2. last(L \union {m}) = {j \in last(L) : slot(j) # slot(m)} \union {m}
    <3> HIDE DEF slot, none
    <3>1. ASSUME NEW j \in last(L \union {m}), j # m PROVE j \in last(L) /\ slot(j) # slot(m)
          BY <1>4, <2>1, <3>1
    <3>2. ASSUME NEW j \in last(L), slot(j) # slot(m) PROVE j \in last(L \union {m})
          BY <1>4, <2>1, <3>2
    <3>3. m \in last(L \union {m})
      <4>1. \A k \in setting(L) \union {m} : k <= m
            BY <1>4, <2>1
      <4> HIDE DEF setting
      <4> QED BY <2>1, <4>1
    <3> HIDE DEF last
    <3> QED BY <3>1, <3>2, <3>3
  <2> HIDE DEF last, none
  <2>3. {pair(j) : j \in last(L \union {m})} =
          {pair(j) : j \in {j \in last(L) : slot(j) # slot(m)}} \union {pair(m)}
        BY <2>2
  <2>4. {pair(j) : j \in {j \in last(L) : slot(j) # slot(m)}} =
          {o \in {pair(j) : j \in last(L)} : o[1] # slot(m)}
        BY <1>3
  <2> HIDE DEF pair, slot
  <2> QED BY <1>1, <1>2, <1>6, <2>3, <2>4
<1> QED BY <1>5, <1>6

\* The names a network starts with are those the root has where it opens.
LEMMA ValuesInherited ==
  ASSUME NEW f, NEW L
  PROVE  {o \in Values(f, "root", L) : o[1][1] \in Inherited} =
           Values(f, "network", {j \in L : f[j].what \in Inherited})
<1> DEFINE slot(j) == Slot(f[j].what, f[j].value)
           none(j) == SetsNothing(f[j].what, f[j].value)
           pair(j) == <<slot(j), f[j].value>>
           setting(K) == {j \in K : ~none(j)}
           last(K) == {j \in setting(K) : \A k \in setting(K) : slot(k) = slot(j) => k <= j}
           K == {j \in L : f[j].what \in Inherited}
<1>1. \A j : slot(j)[1] = f[j].what
      BY DEF Slot
<1>2. \A j : Stored("root", f[j].what, f[j].value) = f[j].value
      BY DEF Stored
<1>3. \A j : Stored("network", f[j].what, f[j].value) = f[j].value
      BY DEF Stored
<1>4. Values(f, "root", L) = {pair(j) : j \in last(L)}
      BY <1>2 DEF Values
<1>5. Values(f, "network", K) = {pair(j) : j \in last(K)}
      BY <1>3 DEF Values
<1>6. last(K) = {j \in last(L) : f[j].what \in Inherited}
  <2> HIDE DEF slot, none
  <2>1. \A j, k : slot(j) = slot(k) => f[j].what = f[k].what
        BY <1>1
  <2> QED BY <2>1
<1>7. \A j : pair(j)[1][1] = f[j].what
      BY <1>1
<1>8. {o \in {pair(j) : j \in last(L)} : o[1][1] \in Inherited} =
        {pair(j) : j \in {j \in last(L) : f[j].what \in Inherited}}
  <2> HIDE DEF last, pair, slot
  <2> QED BY <1>7
<1> HIDE DEF last, pair, slot
<1> QED BY <1>4, <1>5, <1>6, <1>8

-----------------------------------------------------------------------------
(* What sections that are complete declare does not change.                *)

\* A section that is closed is not the one that is open.
LEMMA ClosedIsNotOpen ==
  ASSUME NEW f, IsFile(f), NEW n \in Nat, Shape(f, n), NEW kind \in Sections,
         Inside(f, n + 1) = kind \/ (kind = "network" /\ Inside(f, n + 1) = "server")
  PROVE  \A i \in Closed(f, kind, n) : i # Start(f, kind, n)
<1>1. kind \in OpenAfter(f, n) \ {"root"}
      BY DEF OpenAfter, Sections
<1> QED BY <1>1, ShapeOpen DEF OpenSince

LEMMA ClosedServersStay ==
  ASSUME NEW f, IsFile(f), NEW n \in Nat, n < Len(f), Shape(f, n),
         NEW j \in Closed(f, "server", n)
  PROVE  ServerTo(f, j, n + 1) = ServerTo(f, j, n)
<1>1. j \in Before(f, "server", n) /\ "server" \in Sections
      BY ClosedBefore DEF Sections
<1>2. Inside(f, n + 1) # "server" \/ j # Start(f, "server", n)
      BY <1>1, ClosedIsNotOpen
<1>3. LinesOf(f, j) \intersect (1 .. n + 1) = LinesOf(f, j) \intersect (1 .. n)
      BY <1>1, <1>2, LinesStay
<1> QED BY <1>3 DEF ServerTo

LEMMA ServersInFinite ==
  ASSUME NEW f, IsFile(f), NEW n \in Nat, NEW i
  PROVE  /\ ServersIn(f, i) \intersect Closed(f, "server", n) \in SUBSET Nat
         /\ IsFiniteSet(ServersIn(f, i) \intersect Closed(f, "server", n))
<1>1. Closed(f, "server", n) \in SUBSET Nat /\ IsFiniteSet(Closed(f, "server", n))
      BY ClosedBefore
<1> QED BY <1>1, FS_Subset

LEMMA ServersStay ==
  ASSUME NEW f, IsFile(f), NEW n \in Nat, n < Len(f), Shape(f, n), Allowed(f, n + 1),
         NEW i \in Before(f, "network", n),
         ~(/\ f[n + 1].call = "close" /\ f[n + 1].what = "server"
           /\ i = Start(f, "network", n))
  PROVE  ServersTo(f, i, n + 1) = ServersTo(f, i, n)
<1> DEFINE S == ServersIn(f, i) \intersect Closed(f, "server", n)
<1>1. ServersIn(f, i) \intersect Closed(f, "server", n + 1) = S
  <2>1. CASE ~(f[n + 1].call = "close" /\ f[n + 1].what = "server")
        BY <2>1, ClosedNext
  <2>2. CASE f[n + 1].call = "close" /\ f[n + 1].what = "server"
    <3>1. Inside(f, n + 1) = "server"
          BY <2>2 DEF Allowed
    <3>2. {"server", "network"} \subseteq OpenAfter(f, n) \ {"root"}
          BY <3>1 DEF OpenAfter
    <3>3. PICK t : t = Start(f, "network", n) /\ OpenSince(f, "network", n, t)
          BY <3>2, ShapeOpen
    <3>4. PICK s : s = Start(f, "server", n) /\ OpenSince(f, "server", n, s)
          BY <3>2, ShapeOpen
    <3>5. t < s
          BY <3>1, <3>3, <3>4 DEF Shape
    <3>6. t \in Opened(f, "network") /\ t \in Nat /\ i \in Nat /\ i <= t /\ i # t
          BY <2>2, <3>3 DEF OpenSince, Before, Opened
    <3>7. s \notin ServersIn(f, i)
          BY <3>5, <3>6 DEF ServersIn
    <3>8. Closed(f, "server", n + 1) = Closed(f, "server", n) \union Before(f, "server", n)
          BY <2>2, ClosedNext
    <3>9. Before(f, "server", n) \subseteq Closed(f, "server", n) \union {s}
          BY <3>4 DEF OpenSince
    <3> QED BY <3>7, <3>8, <3>9
  <2> QED BY <2>1, <2>2
<1>2. S \in SUBSET Nat /\ IsFiniteSet(S)
      BY ServersInFinite
<1>3. \A j \in S : ServerTo(f, j, n + 1) = ServerTo(f, j, n)
      BY ClosedServersStay
<1> HIDE DEF S
<1>4. \A m \in DOMAIN InOrder(S) : InOrder(S)[m] \in S
      BY <1>2, InOrderDomain, InOrderMember
<1>5. ServersTo(f, i, n + 1) = [m \in DOMAIN InOrder(S) |-> ServerTo(f, InOrder(S)[m], n + 1)]
      BY <1>1 DEF ServersTo
<1>6. ServersTo(f, i, n) = [m \in DOMAIN InOrder(S) |-> ServerTo(f, InOrder(S)[m], n)]
      BY DEF ServersTo, S
<1> QED BY <1>3, <1>4, <1>5, <1>6

\* The last server of a network that is open is listed when it is closed.
LEMMA ServersGrow ==
  ASSUME NEW f, IsFile(f), NEW n \in Nat, n < Len(f), Shape(f, n), Allowed(f, n + 1),
         f[n + 1].call = "close", f[n + 1].what = "server"
  PROVE  LET i == Start(f, "network", n)
             s == Start(f, "server", n)
         IN  ServersTo(f, i, n + 1) = Append(ServersTo(f, i, n), ServerTo(f, s, n))
<1>1. Inside(f, n + 1) = "server"
      BY DEF Allowed
<1>2. {"server", "network"} \subseteq OpenAfter(f, n) \ {"root"}
      BY <1>1 DEF OpenAfter
<1>3. PICK t : t = Start(f, "network", n) /\ OpenSince(f, "network", n, t)
      BY <1>2, ShapeOpen
<1>4. PICK s : s = Start(f, "server", n) /\ OpenSince(f, "server", n, s)
      BY <1>2, ShapeOpen
<1>5. t < s
      BY <1>1, <1>3, <1>4 DEF Shape
<1> DEFINE S == ServersIn(f, t) \intersect Closed(f, "server", n)
           c == Cardinality(S)
<1>6. s \in ServersIn(f, t)
  <2>1. s \in Opened(f, "server") /\ s <= n /\ s \in Nat /\ t \in Nat
        BY <1>3, <1>4 DEF OpenSince, Before, Opened
  <2>2. \A k \in Opened(f, "network") : k \in Nat /\ (k <= n => k <= t)
        BY <1>3 DEF OpenSince, Before, Opened
  <2>3. \A k \in Opened(f, "network") : ~(t < k /\ k < s)
        BY <2>1, <2>2
  <2> QED BY <1>5, <2>1, <2>3 DEF ServersIn
<1>7. Closed(f, "server", n + 1) = Closed(f, "server", n) \union {s}
  <2>1. Closed(f, "server", n + 1) = Closed(f, "server", n) \union Before(f, "server", n)
        BY ClosedNext
  <2> QED BY <1>4, <2>1 DEF OpenSince
<1>8. ServersIn(f, t) \intersect Closed(f, "server", n + 1) = S \union {s}
      BY <1>6, <1>7
<1>9. S \in SUBSET Nat /\ IsFiniteSet(S) /\ c \in Nat
      BY ServersInFinite, FS_CardinalityType
<1>10. s \in Nat /\ \A j \in S : j < s
  <2>1. \A j \in S : j \in Before(f, "server", n) /\ j # s
        BY <1>4, ClosedBefore DEF OpenSince
  <2>2. s \in Nat
        BY <1>4 DEF OpenSince, Before, Opened
  <2>3. \A j \in S : j \in Nat /\ j <= s
        BY <1>4, <1>9, <2>1 DEF OpenSince
  <2> QED BY <2>1, <2>2, <2>3
<1>11. \A j \in S : ServerTo(f, j, n + 1) = ServerTo(f, j, n)
       BY ClosedServersStay
<1>12. ServerTo(f, s, n + 1) = ServerTo(f, s, n)
  <2>1. s \in Before(f, "server", n) /\ "server" \in Sections
        BY <1>4 DEF OpenSince, Sections
  <2>2. LinesOf(f, s) \intersect (1 .. n + 1) = LinesOf(f, s) \intersect (1 .. n)
        BY <2>1, LinesStay
  <2> QED BY <2>2 DEF ServerTo
<1> DEFINE g == ServersTo(f, t, n)
           x == ServerTo(f, s, n)
           T == {ServerTo(f, j, n) : j \in S} \union {x}
<1>13. /\ ServersTo(f, t, n + 1)
            = [m \in DOMAIN InOrder(S \union {s}) |-> ServerTo(f, InOrder(S \union {s})[m], n + 1)]
       /\ g = [m \in DOMAIN InOrder(S) |-> ServerTo(f, InOrder(S)[m], n)]
       BY <1>8 DEF ServersTo
<1> HIDE DEF S, c, x, g
<1>14. \A m \in 1 .. c : InOrder(S)[m] \in S
       BY <1>9, InOrderMember DEF c
<1>15. /\ DOMAIN InOrder(S) = 1 .. c /\ DOMAIN InOrder(S \union {s}) = 1 .. c + 1
       /\ \A m \in 1 .. c : InOrder(S \union {s})[m] = InOrder(S)[m]
       /\ InOrder(S \union {s})[c + 1] = s
       BY <1>9, <1>10, InOrderAdd DEF c
<1>16. g \in [1 .. c -> T]
       BY <1>13, <1>14, <1>15
<1>17. Append(g, x) = [m \in 1 .. c + 1 |-> IF m = c + 1 THEN x ELSE g[m]]
  <2>1. x \in T
        OBVIOUS
  <2> HIDE DEF T
  <2> QED BY <1>9, <1>16, <2>1, AppendIs
<1>18. ASSUME NEW m \in 1 .. c + 1
       PROVE  ServerTo(f, InOrder(S \union {s})[m], n + 1) = IF m = c + 1 THEN x ELSE g[m]
  <2>1. CASE m = c + 1
        BY <1>12, <1>15, <2>1 DEF x
  <2>2. CASE m # c + 1
    <3>1. m \in 1 .. c
          BY <1>9, <2>2
    <3> QED BY <1>11, <1>13, <1>14, <1>15, <2>2, <3>1
  <2> QED BY <2>1, <2>2
<1>19. ServersTo(f, t, n + 1) = Append(g, x)
       BY <1>13, <1>15, <1>17, <1>18
<1> QED BY <1>3, <1>4, <1>19 DEF g, x

LEMMA SectionStays ==
  ASSUME NEW f, IsFile(f), NEW n \in Nat, n < Len(f), Shape(f, n), Allowed(f, n + 1),
         NEW kind \in Sections, NEW i \in Before(f, kind, n),
         f[n + 1].call # "option" \/ Inside(f, n + 1) # kind \/ i # Start(f, kind, n),
         ~(/\ f[n + 1].call = "close" /\ f[n + 1].what = "server"
           /\ kind = "network" /\ i = Start(f, "network", n))
  PROVE  SectionTo(f, kind, i, n + 1) = SectionTo(f, kind, i, n)
<1>1. Lines(f, kind, i) \intersect (1 .. n + 1) = Lines(f, kind, i) \intersect (1 .. n)
      BY LinesStay
<1>2. kind = "network" => ServersTo(f, i, n + 1) = ServersTo(f, i, n)
      BY ServersStay
<1> QED BY <1>1, <1>2 DEF SectionTo

LEMMA ClosedSectionsStay ==
  ASSUME NEW f, IsFile(f), NEW n \in Nat, n < Len(f), Shape(f, n), Allowed(f, n + 1),
         NEW kind \in Sections, NEW i \in Closed(f, kind, n)
  PROVE  SectionTo(f, kind, i, n + 1) = SectionTo(f, kind, i, n)
<1>1. i \in Before(f, kind, n)
      BY ClosedBefore
<1>2. Inside(f, n + 1) # kind \/ i # Start(f, kind, n)
      BY ClosedIsNotOpen
<1>3. ASSUME f[n + 1].call = "close", f[n + 1].what = "server", kind = "network"
      PROVE  i # Start(f, "network", n)
  <2>1. Inside(f, n + 1) = "server"
        BY <1>3 DEF Allowed
  <2> QED BY <1>3, <2>1, ClosedIsNotOpen
<1> QED BY <1>1, <1>2, <1>3, SectionStays

LEMMA SectionsStay ==
  ASSUME NEW f, IsFile(f), NEW n \in Nat, n < Len(f), Shape(f, n), Allowed(f, n + 1),
         NEW kind \in Sections, ~(f[n + 1].call = "close" /\ f[n + 1].what = kind)
  PROVE  SectionsTo(f, kind, n + 1) = SectionsTo(f, kind, n)
<1> DEFINE S == Closed(f, kind, n)
<1>1. Closed(f, kind, n + 1) = S
      BY ClosedNext
<1>2. S \in SUBSET Nat /\ IsFiniteSet(S)
      BY ClosedBefore
<1>3. \A i \in S : SectionTo(f, kind, i, n + 1) = SectionTo(f, kind, i, n)
      BY ClosedSectionsStay
<1> HIDE DEF S
<1>4. \A m \in DOMAIN InOrder(S) : InOrder(S)[m] \in S
      BY <1>2, InOrderDomain, InOrderMember
<1>5. /\ SectionsTo(f, kind, n + 1)
           = [m \in DOMAIN InOrder(S) |-> SectionTo(f, kind, InOrder(S)[m], n + 1)]
      /\ SectionsTo(f, kind, n)
           = [m \in DOMAIN InOrder(S) |-> SectionTo(f, kind, InOrder(S)[m], n)]
      BY <1>1 DEF SectionsTo, S
<1> QED BY <1>3, <1>4, <1>5

\* The section that is open is listed when it is closed.
LEMMA SectionsGrow ==
  ASSUME NEW f, IsFile(f), NEW n \in Nat, n < Len(f), Shape(f, n), Allowed(f, n + 1),
         NEW kind \in Listing, f[n + 1].call = "close", f[n + 1].what = kind
  PROVE  SectionsTo(f, kind, n + 1)
           = Append(SectionsTo(f, kind, n), SectionTo(f, kind, Start(f, kind, n), n))
<1>1. Inside(f, n + 1) = kind /\ kind \in Sections /\ kind # "server"
      BY DEF Allowed, Listing, Sections
<1>2. kind \in OpenAfter(f, n) \ {"root"}
      BY <1>1 DEF OpenAfter, Sections
<1>3. PICK s : s = Start(f, kind, n) /\ OpenSince(f, kind, n, s)
      BY <1>2, ShapeOpen
<1> DEFINE S == Closed(f, kind, n)
           c == Cardinality(S)
           g == SectionsTo(f, kind, n)
           x == SectionTo(f, kind, s, n)
           T == {SectionTo(f, kind, i, n) : i \in S} \union {x}
<1>4. Closed(f, kind, n + 1) = S \union {s}
  <2>1. Closed(f, kind, n + 1) = Closed(f, kind, n) \union Before(f, kind, n)
        BY ClosedNext
  <2> QED BY <1>3, <2>1 DEF OpenSince
<1>5. S \in SUBSET Nat /\ IsFiniteSet(S) /\ c \in Nat /\ S \subseteq Before(f, kind, n)
      BY ClosedBefore, FS_CardinalityType
<1>6. s \in Nat /\ \A i \in S : i < s
  <2>1. s \in Nat
        BY <1>3 DEF OpenSince, Before, Opened
  <2>2. \A i \in S : i \in Nat /\ i <= s /\ i # s
        BY <1>3, <1>5 DEF OpenSince
  <2> QED BY <2>1, <2>2
<1>7. \A i \in S : SectionTo(f, kind, i, n + 1) = SectionTo(f, kind, i, n)
      BY <1>1, ClosedSectionsStay
<1>8. SectionTo(f, kind, s, n + 1) = SectionTo(f, kind, s, n)
  <2>1. s \in Before(f, kind, n)
        BY <1>3 DEF OpenSince
  <2> QED BY <1>1, <2>1, SectionStays
<1>9. /\ SectionsTo(f, kind, n + 1)
            = [m \in DOMAIN InOrder(S \union {s}) |->
                 SectionTo(f, kind, InOrder(S \union {s})[m], n + 1)]
      /\ g = [m \in DOMAIN InOrder(S) |-> SectionTo(f, kind, InOrder(S)[m], n)]
      BY <1>4 DEF SectionsTo
<1> HIDE DEF S, c, x, g
<1>10. \A m \in 1 .. c : InOrder(S)[m] \in S
       BY <1>5, InOrderMember DEF c
<1>11. /\ DOMAIN InOrder(S) = 1 .. c /\ DOMAIN InOrder(S \union {s}) = 1 .. c + 1
       /\ \A m \in 1 .. c : InOrder(S \union {s})[m] = InOrder(S)[m]
       /\ InOrder(S \union {s})[c + 1] = s
       BY <1>5, <1>6, InOrderAdd DEF c
<1>12. g \in [1 .. c -> T]
       BY <1>9, <1>10, <1>11
<1>13. Append(g, x) = [m \in 1 .. c + 1 |-> IF m = c + 1 THEN x ELSE g[m]]
  <2>1. x \in T
        OBVIOUS
  <2> HIDE DEF T
  <2> QED BY <1>5, <1>12, <2>1, AppendIs
<1>14. ASSUME NEW m \in 1 .. c + 1
       PROVE  SectionTo(f, kind, InOrder(S \union {s})[m], n + 1)
                = IF m = c + 1 THEN x ELSE g[m]
  <2>1. CASE m = c + 1
        BY <1>8, <1>11, <2>1 DEF x
  <2>2. CASE m # c + 1
    <3>1. m \in 1 .. c
          BY <1>5, <2>2
    <3> QED BY <1>7, <1>9, <1>10, <1>11, <2>2, <3>1
  <2> QED BY <2>1, <2>2
<1>15. SectionsTo(f, kind, n + 1) = Append(g, x)
       BY <1>9, <1>11, <1>13, <1>14
<1> QED BY <1>3, <1>15 DEF g, x

\* What a section starts with.
LEMMA SectionStarts ==
  ASSUME NEW f, IsFile(f), NEW n \in Nat, n < Len(f), f[n + 1].call = "open",
         NEW kind \in Sections, f[n + 1].what = kind
  PROVE  /\ SectionTo(f, kind, n + 1, n + 1)
               = [name |-> f[n + 1].value,
                  options |-> IF kind = "network"
                              THEN {o \in Values(f, "root", RootLines(f, n)) : o[1][1] \in Inherited}
                              ELSE {},
                  servers |-> <<>>]
         /\ ServerTo(f, n + 1, n + 1) = Blank(None)
<1>1. LinesOf(f, n + 1) \intersect (1 .. n + 1) = {}
      BY LinesNone
<1>2. ServerTo(f, n + 1, n + 1) = Blank(None)
  <2>1. Values(f, "server", LinesOf(f, n + 1) \intersect (1 .. n + 1)) = {}
        BY <1>1, ValuesNone
  <2>2. ServerTo(f, n + 1, n + 1) = [Blank(None) EXCEPT !.options = {}]
        BY <2>1 DEF ServerTo
  <2> QED BY <2>2 DEF Blank
<1>3. CASE kind # "network"
      BY <1>1, <1>2, <1>3, ValuesNone DEF SectionTo, Lines
<1>4. CASE kind = "network"
  <2>1. RootLines(f, n + 1) = RootLines(f, n)
        BY RootLinesNext
  <2>2. RootLines(f, n + 1) \subseteq 1 .. n + 1
        BY DEF RootLines
  <2>3. NetworkLines(f, n + 1) \intersect (1 .. n + 1)
          = {j \in RootLines(f, n) : f[j].what \in Inherited}
        BY <1>1, <2>1, <2>2 DEF NetworkLines
  <2>4. Closed(f, "server", n + 1) \intersect ServersIn(f, n + 1) = {}
    <3>1. PICK m \in Nat : m = n + 1
          OBVIOUS
    <3>2. \A j \in Closed(f, "server", m) : j \in Nat /\ j <= m
          BY ClosedBefore DEF Before
    <3> QED BY <3>1, <3>2 DEF ServersIn
  <2>5. ServersTo(f, n + 1, n + 1) = <<>>
    <3>1. DOMAIN InOrder({}) = {}
          BY InOrderDomain, FS_EmptySet
    <3>2. ServersIn(f, n + 1) \intersect Closed(f, "server", n + 1) = {}
          BY <2>4
    <3>3. ServersTo(f, n + 1, n + 1) =
            [m \in {} |-> ServerTo(f, InOrder({})[m], n + 1)]
          BY <3>1, <3>2 DEF ServersTo
    <3> QED BY <3>3
  <2> QED BY <1>2, <1>4, <2>3, <2>5, ValuesInherited DEF SectionTo, Lines
<1> QED BY <1>3, <1>4

-----------------------------------------------------------------------------
(* The steps of the reader: contents.                                      *)

LEMMA StartBefore ==
  ASSUME NEW f, IsFile(f), NEW n \in Nat, NestedTo(f, n), Shape(f, n),
         NEW kind \in InProgress(f, n) \ {"root"}
  PROVE  Start(f, kind, n) \in Before(f, kind, n)
<1>1. CASE kind \in OpenAfter(f, n)
      BY <1>1, ShapeOpen DEF OpenSince
<1>2. CASE kind \notin OpenAfter(f, n)
  <2>1. kind = "database" /\ Before(f, "database", n) # {}
        BY <1>2 DEF InProgress
  <2>2. PICK s \in Before(f, "database", n) : TRUE
        BY <2>1
  <2>3. \A i \in Before(f, "database", n) : i = s /\ i \in Nat
        BY BeforeIsNat DEF NestedTo
  <2>4. Start(f, "database", n) = s
        BY <2>3, StartIs
  <2> QED BY <2>1, <2>2, <2>4
<1> QED BY <1>1, <1>2

\* While a file that is nested is read.
LEMMA ReadingNested ==
  ASSUME ControlInv, ContentInv, Reading, Nested(file)
  PROVE  /\ IsFile(file) /\ at \in Nat /\ at < Len(file) /\ at + 1 \in 1 .. Len(file)
         /\ file \in File \ {Missing}
         /\ Follows(file, at) /\ NestedTo(file, at) /\ section = Inside(file, at + 1)
         /\ section \in Sections \union {"root"}
         /\ DOMAIN progress = InProgress(file, at)
         /\ Shape(file, at) /\ Shape(file, at + 1) /\ Built(file, at)
         /\ Allowed(file, at + 1)
         /\ section = "database" => Before(file, "database", at) # {}
<1>1. /\ IsFile(file) /\ at \in 0 .. Len(file) /\ at < Len(file) /\ Len(file) \in Nat
      /\ file \in File \ {Missing}
      /\ Ignored(file, at) \/ Follows(file, at)
      BY FilesAreFiles DEF Reading, ControlInv, IsFile
<1>2. Follows(file, at)
      BY <1>1, IgnoredNotNested
<1>3. at + 1 \in 1 .. Len(file) /\ at \in Nat
      BY <1>1
<1>4. Shape(file, at) /\ Built(file, at)
      BY DEF Reading, ContentInv
<1>5. Allowed(file, at + 1)
      BY <1>3 DEF Nested
<1>6. /\ NestedTo(file, at) /\ section = Inside(file, at + 1)
      /\ section \in Sections \union {"root"} /\ DOMAIN progress = InProgress(file, at)
      /\ section = "database" => Before(file, "database", at) # {}
      BY <1>2 DEF Follows, ControlInv, ReaderTypes
<1>7. Shape(file, at + 1)
      BY <1>1, <1>3, <1>4, <1>5, <1>6, ShapeNext
<1>8. /\ IsFile(file) /\ at \in Nat /\ at < Len(file) /\ at + 1 \in 1 .. Len(file)
      /\ file \in File \ {Missing}
      BY <1>1, <1>3
<1> QED BY <1>2, <1>4, <1>5, <1>6, <1>7, <1>8, Zenon

\* A line leaves the contents as they should be if what is built is.
LEMMA LineContent ==
  ASSUME ControlInv, ContentInv, Reading, Taken, outcome' \in {"reading", "exception"},
         outcome' = "reading" /\ Nested(file) => Holds(progress', listed', file, at + 1)
  PROVE  ContentInv'
<1>1. file' = file /\ at' = at + 1 /\ isRead' = isRead /\ outcome = "reading"
      BY DEF Taken, Reading
<1>2. isRead = FALSE
      BY <1>1 DEF ControlInv, ReaderTypes
<1>3. ASSUME outcome' = "reading", Nested(file) PROVE Shape(file', at') /\ Built(file, at)'
  <2>1. Shape(file, at + 1)
        BY <1>3, ReadingNested
  <2> QED BY <1>1, <1>3, <2>1 DEF Built, Holds
<1> QED BY <1>1, <1>2, <1>3 DEF ContentInv

LEMMA StartedIs ==
  ASSUME NEW kind, NEW name
  PROVE  Started(kind, name) =
           [name |-> name,
            options |-> IF kind = "network"
                        THEN {o \in progress["root"].options : o[1][1] \in Inherited} ELSE {},
            servers |-> <<>>]
<1>1. PICK given : given = IF kind = "network"
                           THEN {o \in progress["root"].options : o[1][1] \in Inherited} ELSE {}
      OBVIOUS
<1>2. Started(kind, name) = [[name |-> name, options |-> {}, servers |-> <<>>]
                               EXCEPT !.options = given]
      BY <1>1 DEF Started, Blank
<1> QED BY <1>1, <1>2

LEMMA SectOpenContent ==
  ASSUME ControlInv, ContentInv, SectOpen PROVE ContentInv'
<1>1. Reading /\ Taken /\ Line = file[at + 1] /\ Line.call = "open"
      BY DEF SectOpen, Line
<1>2. outcome' \in {"reading", "exception"}
      BY <1>1 DEF SectOpen, Reading, Error, Enter
<1> SUFFICES ASSUME outcome' = "reading", Nested(file)
             PROVE  Holds(progress', listed', file, at + 1)
    BY <1>1, <1>2, LineContent
<1>3. PICK f : f = file
      OBVIOUS
<1>4. PICK n : n = at
      OBVIOUS
<1>5. PICK kind : kind = f[n + 1].what
      OBVIOUS
<1>6. /\ IsFile(f) /\ n \in Nat /\ n < Len(f) /\ n + 1 \in 1 .. Len(f)
      /\ NestedTo(f, n) /\ section = Inside(f, n + 1) /\ DOMAIN progress = InProgress(f, n)
      /\ Shape(f, n) /\ Shape(f, n + 1) /\ Built(f, n) /\ Allowed(f, n + 1)
      /\ section = "database" => Before(f, "database", n) # {}
      BY <1>1, <1>3, <1>4, ReadingNested
<1>7. f[n + 1].call = "open" /\ kind \in Sections /\ kind # "root"
      BY <1>1, <1>3, <1>4, <1>5, <1>6 DEF IsFile, Sections
<1>8. section = IF kind = "server" THEN "network" ELSE "root"
      BY <1>5, <1>6, <1>7 DEF Allowed
<1>9. PICK name : /\ Enter(kind, name)
                  /\ kind # "server" => name = f[n + 1].value
                  /\ kind = "server" => name = None
  <2>1. CASE kind = "server"
    <3>1. Line.what = "server" /\ section = "network"
          BY <1>1, <1>3, <1>4, <1>5, <1>8, <2>1
    <3>2. Enter("server", None)
          BY <3>1 DEF SectOpen
    <3> QED BY <2>1, <3>2
  <2>2. CASE kind # "server"
    <3>1. Line.what = kind /\ section = "root" /\ Line.value = f[n + 1].value
          BY <1>1, <1>3, <1>4, <1>5, <1>8, <2>2
    <3>2. Enter(Line.what, Line.value) \/ Error
          BY <3>1 DEF SectOpen
    <3> QED BY <2>2, <3>1, <3>2 DEF Error
  <2> QED BY <2>1, <2>2
<1>10. /\ progress' = [k \in DOMAIN progress \union {kind} |->
                         IF k = kind THEN Started(kind, name) ELSE progress[k]]
       /\ listed' = listed
       BY <1>9 DEF Enter
<1>11. InProgress(f, n + 1) = InProgress(f, n) \union {kind}
       BY <1>5, <1>6, <1>7, InProgressNext
<1>12. progress["root"] = [Blank("") EXCEPT !.options = Values(f, "root", RootLines(f, n))]
       BY <1>6 DEF Built, Holds
<1>13. RootLines(f, n + 1) = RootLines(f, n)
       BY <1>6, <1>7, RootLinesNext
<1>14. "root" \in InProgress(f, n)
       BY DEF InProgress, OpenAfter
<1>15. Start(f, kind, n + 1) = n + 1
  <2>1. Before(f, kind, n + 1) = Before(f, kind, n) \union {n + 1}
        BY <1>5, <1>6, <1>7, BeforeNext
  <2>2. \A i \in Before(f, kind, n) : i \in Nat /\ i <= n
        BY <1>6, BeforeIsNat DEF Before
  <2>3. \A i \in Before(f, kind, n + 1) : i <= n + 1
        BY <1>6, <2>1, <2>2
  <2> QED BY <1>6, <2>1, <2>3, StartIs, SMTT(30)
<1>16. /\ kind # "server" => Started(kind, name) = SectionTo(f, kind, n + 1, n + 1)
       /\ kind = "server" => Started(kind, name) = ServerTo(f, n + 1, n + 1)
  <2>1. /\ SectionTo(f, kind, n + 1, n + 1)
               = [name |-> f[n + 1].value,
                  options |-> IF kind = "network"
                              THEN {o \in Values(f, "root", RootLines(f, n)) : o[1][1] \in Inherited}
                              ELSE {},
                  servers |-> <<>>]
        /\ ServerTo(f, n + 1, n + 1) = Blank(None)
        BY <1>5, <1>6, <1>7, SectionStarts
  <2>2. progress["root"].options = Values(f, "root", RootLines(f, n))
        BY <1>12 DEF Blank
  <2>3. Started(kind, name) =
          [name |-> name,
           options |-> IF kind = "network"
                       THEN {o \in progress["root"].options : o[1][1] \in Inherited} ELSE {},
           servers |-> <<>>]
        BY StartedIs
  <2>4. Blank(None) = [name |-> None, options |-> {}, servers |-> <<>>]
        BY DEF Blank
  <2>5. CASE kind = "server"
        BY <1>9, <2>1, <2>3, <2>4, <2>5
  <2>6. CASE kind # "server"
    <3>1. name = f[n + 1].value
          BY <1>9, <2>6
    <3>2. Started(kind, name) = SectionTo(f, kind, n + 1, n + 1)
      <4> QED BY <2>1, <2>2, <2>3, <3>1
    <3> QED BY <2>6, <3>2
  <2> QED BY <2>5, <2>6
<1>17. ASSUME NEW k \in InProgress(f, n + 1) \ {"root", "server"}
       PROVE  progress'[k] = SectionTo(f, k, Start(f, k, n + 1), n + 1)
  <2>1. CASE k = kind
        BY <1>6, <1>10, <1>11, <1>15, <1>16, <1>17, <2>1
  <2>2. CASE k # kind
    <3>1. k \in InProgress(f, n) \ {"root", "server"} /\ k \in Sections
          BY <1>6, <1>8, <1>11, <1>17, <2>2 DEF InProgress, OpenAfter, Sections
    <3>2. Start(f, k, n) \in Before(f, k, n)
          BY <1>6, <3>1, StartBefore
    <3>3. SectionTo(f, k, Start(f, k, n), n + 1) = SectionTo(f, k, Start(f, k, n), n)
          BY <1>6, <1>7, <3>1, <3>2, SectionStays
    <3>4. Start(f, k, n + 1) = Start(f, k, n)
          BY <1>5, <1>6, <2>2, BeforeNext DEF Start
    <3>5. progress'[k] = progress[k]
          BY <1>6, <1>10, <2>2, <3>1
    <3>6. progress[k] = SectionTo(f, k, Start(f, k, n), n)
          BY <1>6, <3>1 DEF Built, Holds
    <3> QED BY <3>3, <3>4, <3>5, <3>6
  <2> QED BY <2>1, <2>2
<1>18. Inside(f, (n + 1) + 1) = kind
       BY <1>5, <1>6, <1>7, InsideNext
<1>19. kind = "server" => progress'["server"] = ServerTo(f, Start(f, "server", n + 1), n + 1)
       BY <1>6, <1>10, <1>15, <1>16
<1>20. progress'["root"] = progress["root"]
       BY <1>6, <1>7, <1>10, <1>14
<1>21. DOMAIN listed' = Listing /\ \A k \in Listing : listed'[k] = SectionsTo(f, k, n + 1)
  <2>1. ASSUME NEW k \in Listing PROVE SectionsTo(f, k, n + 1) = SectionsTo(f, k, n)
    <3>1. k \in Sections
          BY DEF Listing, Sections
    <3> QED BY <1>6, <1>7, <3>1, SectionsStay
  <2> QED BY <1>6, <1>10, <2>1 DEF Built, Holds
<1> QED BY <1>3, <1>4, <1>12, <1>13, <1>17, <1>18, <1>19, <1>20, <1>21 DEF Holds

LEMMA SetOptionContent ==
  ASSUME ControlInv, ContentInv, SetOption PROVE ContentInv'
<1>1. Reading /\ Taken /\ Line = file[at + 1] /\ Line.call = "option"
      BY DEF SetOption, Line
<1>2. outcome' \in {"reading", "exception"}
      BY <1>1 DEF SetOption, Reading, Error, Assign
<1> SUFFICES ASSUME outcome' = "reading", Nested(file)
             PROVE  Holds(progress', listed', file, at + 1)
    BY <1>1, <1>2, LineContent
<1>3. PICK f : f = file
      OBVIOUS
<1>4. PICK n : n = at
      OBVIOUS
<1>5. /\ IsFile(f) /\ n \in Nat /\ n < Len(f) /\ n + 1 \in 1 .. Len(f)
      /\ NestedTo(f, n) /\ section = Inside(f, n + 1) /\ DOMAIN progress = InProgress(f, n)
      /\ section \in Sections \union {"root"}
      /\ Shape(f, n) /\ Shape(f, n + 1) /\ Built(f, n) /\ Allowed(f, n + 1)
      /\ section = "database" => Before(f, "database", n) # {}
      BY <1>1, <1>3, <1>4, ReadingNested
<1>6. f[n + 1].call = "option"
      BY <1>1, <1>3, <1>4
<1> DEFINE new(options) == Assigned(options, f[n + 1].what,
                                    Stored(section, f[n + 1].what, f[n + 1].value))
<1>7. /\ progress' = [progress EXCEPT ![section].options = new(@)]
      /\ listed' = listed
      BY <1>1, <1>3, <1>4 DEF SetOption, Assign, Error
<1>8. InProgress(f, n + 1) = InProgress(f, n)
      BY <1>5, <1>6, InProgressNext
<1>9. Inside(f, (n + 1) + 1) = section
      BY <1>5, <1>6, InsideNext
<1>10. \A k : Start(f, k, n + 1) = Start(f, k, n)
       BY <1>5, <1>6, BeforeNext DEF Start
<1>11. "root" \in DOMAIN progress /\ section \in DOMAIN progress
       BY <1>5 DEF InProgress, OpenAfter
<1> HIDE DEF new
<1>12. /\ progress'[section] = [progress[section] EXCEPT !.options = new(@)]
       /\ \A k \in DOMAIN progress : k # section => progress'[k] = progress[k]
       BY <1>7, <1>11
<1>13. progress'["root"] = [Blank("") EXCEPT !.options = Values(f, "root", RootLines(f, n + 1))]
  <2>1. progress["root"] = [Blank("") EXCEPT !.options = Values(f, "root", RootLines(f, n))]
        BY <1>5 DEF Built, Holds
  <2>2. CASE section # "root"
    <3>1. RootLines(f, n + 1) = RootLines(f, n)
          BY <1>5, <2>2, RootLinesNext
    <3> QED BY <1>11, <1>12, <2>1, <2>2, <3>1
  <2>3. CASE section = "root"
    <3>1. RootLines(f, n + 1) = RootLines(f, n) \union {n + 1}
          BY <1>5, <1>6, <2>3, RootLinesNext
    <3>2. /\ RootLines(f, n) \in SUBSET Nat /\ \A j \in RootLines(f, n) : j <= n
          /\ n + 1 \in Nat
          BY <1>5, LinesAreNat
    <3>3. \A j \in RootLines(f, n) : j < n + 1
          BY <1>5, <3>2
    <3>4. Values(f, "root", RootLines(f, n + 1)) = new(Values(f, "root", RootLines(f, n)))
          BY <2>3, <3>1, <3>2, <3>3, ValuesNext DEF new
    <3>5. PICK options : options = Values(f, "root", RootLines(f, n))
          OBVIOUS
    <3>6. [[Blank("") EXCEPT !.options = options] EXCEPT !.options = new(@)] =
            [Blank("") EXCEPT !.options = new(options)]
          BY DEF Blank
    <3> QED BY <1>12, <2>1, <2>3, <3>4, <3>5, <3>6
  <2> QED BY <2>2, <2>3
<1>14. ASSUME NEW k \in InProgress(f, n + 1) \ {"root", "server"}
       PROVE  progress'[k] = SectionTo(f, k, Start(f, k, n + 1), n + 1)
  <2>1. k \in InProgress(f, n) \ {"root", "server"} /\ k \in Sections
        BY <1>5, <1>8, <1>14 DEF InProgress, OpenAfter, Sections
  <2>2. PICK s : s = Start(f, k, n) /\ s \in Before(f, k, n) /\ s = Start(f, k, n + 1)
        BY <1>5, <1>10, <2>1, StartBefore
  <2>3. progress[k] = SectionTo(f, k, s, n)
        BY <1>5, <2>1, <2>2 DEF Built, Holds
  <2>4. CASE k # section
    <3>1. SectionTo(f, k, s, n + 1) = SectionTo(f, k, s, n)
          BY <1>5, <1>6, <2>1, <2>2, <2>4, SectionStays
    <3> QED BY <1>5, <1>12, <2>1, <2>2, <2>3, <2>4, <3>1
  <2>5. CASE k = section
    <3> DEFINE old == Lines(f, k, s) \intersect (1 .. n)
               servers == IF k = "network" THEN ServersTo(f, s, n) ELSE <<>>
    <3>0. Lines(f, k, Start(f, k, n)) \intersect (1 .. n + 1)
            = (Lines(f, k, Start(f, k, n)) \intersect (1 .. n)) \union {n + 1}
          BY <1>5, <1>6, <2>1, <2>5, LinesGrow
    <3>1. Lines(f, k, s) \intersect (1 .. n + 1) = old \union {n + 1}
          BY <2>2, <3>0
    <3>2. old \in SUBSET Nat /\ n + 1 \in Nat /\ \A j \in old : j < n + 1
          BY <1>5
    <3> HIDE DEF old
    <3>3. Values(f, k, Lines(f, k, s) \intersect (1 .. n + 1)) = new(Values(f, k, old))
          BY <2>5, <3>1, <3>2, ValuesNext DEF new
    <3>4. k = "network" => ServersTo(f, s, n + 1) = ServersTo(f, s, n)
          BY <1>5, <1>6, <2>2, ServersStay
    <3>5. SectionTo(f, k, s, n + 1) =
            [name |-> f[s].value, options |-> new(Values(f, k, old)), servers |-> servers]
          BY <3>3, <3>4 DEF SectionTo
    <3>6. SectionTo(f, k, s, n) =
            [name |-> f[s].value, options |-> Values(f, k, old), servers |-> servers]
          BY DEF SectionTo, old
    <3> HIDE DEF servers
    <3>7. progress'[k] = [name |-> f[s].value, options |-> new(Values(f, k, old)), servers |-> servers]
          BY <1>12, <2>3, <2>5, <3>6
    <3> QED BY <2>2, <3>5, <3>7
  <2> QED BY <2>4, <2>5
<1>15. ASSUME section = "server"
       PROVE  progress'["server"] = ServerTo(f, Start(f, "server", n + 1), n + 1)
  <2>1. PICK s : s = Start(f, "server", n) /\ s = Start(f, "server", n + 1)
        BY <1>10
  <2> DEFINE old == LinesOf(f, s) \intersect (1 .. n)
  <2>2. progress["server"] = [Blank(None) EXCEPT !.options = Values(f, "server", old)]
        BY <1>5, <1>15, <2>1 DEF Built, Holds, ServerTo
  <2>3. LinesOf(f, s) \intersect (1 .. n + 1) = old \union {n + 1}
        BY <1>5, <1>6, <1>15, <2>1, LinesGrow
  <2>4. old \in SUBSET Nat /\ n + 1 \in Nat /\ \A j \in old : j < n + 1
        BY <1>5
  <2> HIDE DEF old
  <2>5. Values(f, "server", LinesOf(f, s) \intersect (1 .. n + 1)) = new(Values(f, "server", old))
        BY <1>15, <2>3, <2>4, ValuesNext DEF new
  <2>6. PICK options : options = Values(f, "server", old)
        OBVIOUS
  <2>7. [[Blank(None) EXCEPT !.options = options] EXCEPT !.options = new(@)] =
          [Blank(None) EXCEPT !.options = new(options)]
        BY DEF Blank
  <2> QED BY <1>12, <1>15, <2>1, <2>2, <2>5, <2>6, <2>7 DEF ServerTo
<1>16. DOMAIN listed' = Listing /\ \A k \in Listing : listed'[k] = SectionsTo(f, k, n + 1)
  <2>1. ASSUME NEW k \in Listing PROVE SectionsTo(f, k, n + 1) = SectionsTo(f, k, n)
    <3>1. k \in Sections
          BY DEF Listing, Sections
    <3> QED BY <1>5, <1>6, <3>1, SectionsStay
  <2> QED BY <1>5, <1>7, <2>1 DEF Built, Holds
<1> QED BY <1>3, <1>4, <1>9, <1>13, <1>14, <1>15, <1>16 DEF Holds

LEMMA SectCloseContent ==
  ASSUME ControlInv, ContentInv, SectClose PROVE ContentInv'
<1>1. Reading /\ Taken /\ Line = file[at + 1] /\ Line.call = "close"
      BY DEF SectClose, Line
<1>2. outcome' \in {"reading", "exception"}
      BY <1>1 DEF SectClose, Reading, Error, Leave
<1> SUFFICES ASSUME outcome' = "reading", Nested(file)
             PROVE  Holds(progress', listed', file, at + 1)
    BY <1>1, <1>2, LineContent
<1>3. PICK f : f = file
      OBVIOUS
<1>4. PICK n : n = at
      OBVIOUS
<1>5. /\ IsFile(f) /\ n \in Nat /\ n < Len(f) /\ n + 1 \in 1 .. Len(f)
      /\ NestedTo(f, n) /\ section = Inside(f, n + 1) /\ DOMAIN progress = InProgress(f, n)
      /\ Shape(f, n) /\ Shape(f, n + 1) /\ Built(f, n) /\ Allowed(f, n + 1)
      /\ section = "database" => Before(f, "database", n) # {}
      BY <1>1, <1>3, <1>4, ReadingNested
<1>6. PICK kind \in Sections : kind = section /\ f[n + 1].call = "close" /\ f[n + 1].what = kind
      BY <1>1, <1>3, <1>4, <1>5 DEF Allowed, IsFile
<1>7. Leave(kind)
      BY <1>1, <1>6 DEF SectClose, Error
<1>8. DOMAIN listed = Listing /\ \A k \in Listing : listed[k] = SectionsTo(f, k, n)
      BY <1>5 DEF Built, Holds
<1>9. listed' = IF kind \in Listing
                THEN [listed EXCEPT ![kind] = Append(@, progress[kind])] ELSE listed
      BY <1>7, <1>8 DEF Leave
<1>10. "root" \in DOMAIN progress /\ kind \in DOMAIN progress /\ kind # "root"
       BY <1>5, <1>6 DEF InProgress, OpenAfter, Sections
<1>11. kind = "server" => "network" \in DOMAIN progress /\ "network" # "server"
       BY <1>5, <1>6 DEF InProgress, OpenAfter
<1>12. InProgress(f, n + 1) = IF kind = "database" THEN InProgress(f, n)
                              ELSE InProgress(f, n) \ {kind}
       BY <1>5, <1>6, InProgressNext
<1>13. /\ \A k \in InProgress(f, n + 1) :
             ~(kind = "server" /\ k = "network") => progress'[k] = progress[k]
       /\ kind = "server" =>
             progress'["network"] = [progress["network"] EXCEPT !.servers = Append(@, progress["server"])]
  <2>1. CASE kind = "database"
        BY <1>7, <2>1 DEF Leave
  <2>2. CASE kind = "server"
    <3>1. progress' = [Without("server") EXCEPT !["network"].servers = Append(@, progress["server"])]
          BY <1>7, <2>2 DEF Leave
    <3> QED BY <1>5, <1>11, <1>12, <2>2, <3>1 DEF Without
  <2>3. CASE kind \notin {"database", "server"}
    <3>1. progress' = Without(kind)
          BY <1>7, <2>3 DEF Leave
    <3> QED BY <1>5, <1>12, <2>3, <3>1 DEF Without
  <2> QED BY <2>1, <2>2, <2>3
<1>14. \A k : Start(f, k, n + 1) = Start(f, k, n)
       BY <1>5, <1>6, BeforeNext DEF Start
<1>15. progress'["root"] = [Blank("") EXCEPT !.options = Values(f, "root", RootLines(f, n + 1))]
  <2>1. RootLines(f, n + 1) = RootLines(f, n)
        BY <1>5, <1>6, RootLinesNext
  <2>2. "root" \in InProgress(f, n + 1)
        BY DEF InProgress, OpenAfter
  <2> QED BY <1>5, <1>13, <2>1, <2>2 DEF Built, Holds
<1>16. ASSUME NEW k \in InProgress(f, n + 1) \ {"root", "server"}
       PROVE  progress'[k] = SectionTo(f, k, Start(f, k, n + 1), n + 1)
  <2>1. k \in InProgress(f, n) \ {"root", "server"} /\ k \in Sections
        BY <1>5, <1>6, <1>12, <1>16 DEF InProgress, OpenAfter, Sections
  <2>2. PICK s : s = Start(f, k, n) /\ s \in Before(f, k, n) /\ s = Start(f, k, n + 1)
        BY <1>5, <1>14, <2>1, StartBefore
  <2>3. progress[k] = SectionTo(f, k, s, n)
        BY <1>5, <2>1, <2>2 DEF Built, Holds
  <2>4. CASE ~(kind = "server" /\ k = "network")
    <3>1. SectionTo(f, k, s, n + 1) = SectionTo(f, k, s, n)
          BY <1>5, <1>6, <2>1, <2>2, <2>4, SectionStays
    <3> QED BY <1>13, <1>16, <2>2, <2>3, <2>4, <3>1
  <2>5. CASE kind = "server" /\ k = "network"
    <3>1. progress["server"] = ServerTo(f, Start(f, "server", n), n)
          BY <1>5, <1>6, <2>5 DEF Built, Holds
    <3>2. ServersTo(f, s, n + 1) = Append(ServersTo(f, s, n), progress["server"])
          BY <1>5, <1>6, <2>2, <2>5, <3>1, ServersGrow
    <3>3. Lines(f, k, s) \intersect (1 .. n + 1) = Lines(f, k, s) \intersect (1 .. n)
          BY <1>5, <1>6, <2>1, <2>2, LinesStay
    <3> DEFINE options == Values(f, k, Lines(f, k, s) \intersect (1 .. n))
               servers == ServersTo(f, s, n)
    <3>4. SectionTo(f, k, s, n) = [name |-> f[s].value, options |-> options, servers |-> servers]
          BY <2>5 DEF SectionTo
    <3>5. SectionTo(f, k, s, n + 1) =
            [name |-> f[s].value, options |-> options, servers |-> Append(servers, progress["server"])]
          BY <2>5, <3>2, <3>3 DEF SectionTo
    <3>6. progress'[k] = [SectionTo(f, k, s, n) EXCEPT !.servers = Append(@, progress["server"])]
          BY <1>13, <2>3, <2>5
    <3> HIDE DEF options, servers
    <3>7. [SectionTo(f, k, s, n) EXCEPT !.servers = Append(@, progress["server"])]
            = SectionTo(f, k, s, n + 1)
          BY <3>4, <3>5
    <3> QED BY <2>2, <3>6, <3>7
  <2> QED BY <2>4, <2>5
<1>17. Inside(f, (n + 1) + 1) # "server"
       BY <1>5, <1>6, InsideNext
<1>18. ASSUME NEW k \in Listing PROVE listed'[k] = SectionsTo(f, k, n + 1)
  <2>1. k \in Sections /\ k \notin {"root", "server"}
        BY DEF Listing, Sections
  <2>2. CASE k # kind
    <3>1. SectionsTo(f, k, n + 1) = SectionsTo(f, k, n)
          BY <1>5, <1>6, <2>1, <2>2, SectionsStay
    <3> QED BY <1>8, <1>9, <2>2, <3>1
  <2>3. CASE k = kind
    <3>1. progress[k] = SectionTo(f, k, Start(f, k, n), n)
          BY <1>5, <1>10, <2>1, <2>3 DEF Built, Holds
    <3>2. SectionsTo(f, k, n + 1) = Append(SectionsTo(f, k, n), progress[k])
          BY <1>5, <1>6, <2>3, <3>1, SectionsGrow
    <3> QED BY <1>8, <1>9, <2>3, <3>2
  <2> QED BY <2>2, <2>3
<1>19. DOMAIN listed' = Listing
       BY <1>8, <1>9
<1> QED BY <1>3, <1>4, <1>15, <1>16, <1>17, <1>18, <1>19 DEF Holds

\* When all lines are read and all sections closed, what the lines declare is
\* what the file declares.
LEMMA AllServers ==
  ASSUME NEW f, IsFile(f), NEW i, Opened(f, "server") \subseteq Closed(f, "server", Len(f))
  PROVE  ServersTo(f, i, Len(f)) = DeclaredServers(f, i)
<1> DEFINE S == ServersIn(f, i)
<1>1. S \intersect Closed(f, "server", Len(f)) = S
      BY DEF ServersIn
<1>2. S = {j \in Opened(f, "server") : j > i /\ \A k \in Opened(f, "network") : ~(i < k /\ k < j)}
      BY DEF ServersIn
<1>3. \A j : LinesOf(f, j) \intersect (1 .. Len(f)) = LinesOf(f, j)
             \/ j \notin Nat
      BY DEF LinesOf, IsFile
<1>4. S \in SUBSET Nat /\ IsFiniteSet(S)
  <2>1. S \in SUBSET (1 .. Len(f)) /\ IsFiniteSet(1 .. Len(f)) /\ Len(f) \in Nat
        BY FS_Interval DEF ServersIn, Opened, IsFile
  <2> HIDE DEF S
  <2>2. IsFiniteSet(S)
        BY <2>1, FS_Subset
  <2> QED BY <2>1, <2>2
<1> HIDE DEF S
<1>5. \A m \in DOMAIN InOrder(S) : InOrder(S)[m] \in Nat
      BY <1>4, InOrderDomain, InOrderMember
<1>6. \A j \in Nat : ServerTo(f, j, Len(f)) =
                     [Blank(None) EXCEPT !.options = Values(f, "server", LinesOf(f, j))]
      BY <1>3 DEF ServerTo
<1>7. ServersTo(f, i, Len(f)) = [m \in DOMAIN InOrder(S) |-> ServerTo(f, InOrder(S)[m], Len(f))]
      BY <1>1 DEF ServersTo, S
<1>8. DeclaredServers(f, i) =
        [m \in DOMAIN InOrder(S) |->
           [Blank(None) EXCEPT !.options = Values(f, "server", LinesOf(f, InOrder(S)[m]))]]
      BY <1>2 DEF DeclaredServers
<1> QED BY <1>5, <1>6, <1>7, <1>8

LEMMA AllSections ==
  ASSUME NEW f, IsFile(f), NEW kind \in Listing,
         Opened(f, "server") \subseteq Closed(f, "server", Len(f)),
         Opened(f, kind) \subseteq Closed(f, kind, Len(f))
  PROVE  SectionsTo(f, kind, Len(f)) = DeclaredSections(f, kind)
<1> DEFINE S == Opened(f, kind)
<1>1. Closed(f, kind, Len(f)) = S /\ Len(f) \in Nat
      BY DEF Closed, IsFile
<1>2. S \in SUBSET Nat /\ IsFiniteSet(S)
      BY <1>1, ClosedBefore
<1>3. ASSUME NEW i \in S
      PROVE  SectionTo(f, kind, i, Len(f)) = DeclaredSection(f, kind, i)
  <2>1. i \in 1 .. Len(f)
        BY DEF Opened
  <2>2. LinesOf(f, i) \subseteq 1 .. Len(f) /\ RootLines(f, i) \subseteq 1 .. Len(f)
        BY <1>1, <2>1 DEF LinesOf, RootLines
  <2>3. Lines(f, kind, i) \intersect (1 .. Len(f)) = Lines(f, kind, i)
        BY <2>2 DEF Lines, NetworkLines
  <2>4. kind = "network" => ServersTo(f, i, Len(f)) = DeclaredServers(f, i)
        BY AllServers
  <2> QED BY <2>3, <2>4 DEF SectionTo, DeclaredSection, Lines
<1> HIDE DEF S
<1>4. \A m \in DOMAIN InOrder(S) : InOrder(S)[m] \in S
      BY <1>2, InOrderDomain, InOrderMember
<1>5. /\ SectionsTo(f, kind, Len(f))
           = [m \in DOMAIN InOrder(S) |-> SectionTo(f, kind, InOrder(S)[m], Len(f))]
      /\ DeclaredSections(f, kind)
           = [m \in DOMAIN InOrder(S) |-> DeclaredSection(f, kind, InOrder(S)[m])]
      BY <1>1 DEF SectionsTo, DeclaredSections, S
<1> QED BY <1>3, <1>4, <1>5

LEMMA EndOfFileContent ==
  ASSUME ControlInv, ContentInv, EndOfFile PROVE ContentInv'
<1>1. /\ outcome = "reading" /\ at = Len(file) /\ file' = file /\ isRead = FALSE
      /\ outcome' # "reading"
      BY DEF EndOfFile, ControlInv, ReaderTypes
<1> SUFFICES ASSUME isRead', Nested(file) PROVE config' = Declared(file)
    BY <1>1 DEF ContentInv
<1>2. "database" \in DOMAIN progress /\ ~Unfinished /\ config' = Published
      BY <1>1 DEF EndOfFile
<1>3. PICK f : f = file
      OBVIOUS
<1>4. IsFile(f) /\ Len(f) \in Nat /\ Shape(f, Len(f)) /\ Built(f, Len(f))
      BY <1>1, <1>3, FilesAreFiles DEF ControlInv, ContentInv, IsFile
<1>5. DOMAIN progress = InProgress(f, Len(f))
  <2>1. ~Ignored(f, Len(f))
        BY <1>3, <1>4, IgnoredNotNested
  <2> QED BY <1>1, <1>3, <2>1 DEF ControlInv, Follows
<1>6. ASSUME NEW kind \in Listing \union {"server"}
      PROVE  Opened(f, kind) \subseteq Closed(f, kind, Len(f))
  <2>1. kind \in Sections /\ kind \notin {"root", "database"}
        BY DEF Listing, Sections
  <2>2. kind \notin OpenAfter(f, Len(f))
        BY <1>2, <1>5, <2>1 DEF Unfinished, InProgress
  <2>3. Before(f, kind, Len(f)) = Opened(f, kind)
        BY <1>4, BeforeAll
  <2> QED BY <1>4, <2>1, <2>2, <2>3 DEF Shape
<1>7. \A kind \in Listing : listed[kind] = DeclaredSections(f, kind)
      BY <1>4, <1>6, AllSections DEF Built, Holds
<1>8. progress["root"].options = Values(f, "root", RootLines(f, Len(f)))
      BY <1>4 DEF Built, Holds, Blank
<1>9. progress["database"].options
        = Values(f, "database", LinesOf(f, Latest(Opened(f, "database"))))
  <2>1. PICK d : d = Start(f, "database", Len(f))
        OBVIOUS
  <2>2. d = Latest(Opened(f, "database"))
        BY <1>4, <2>1, BeforeAll DEF Start
  <2>3. Nested(f)
        BY <1>3
  <2>4. d \in Nat
    <3>1. PICK i \in Opened(f, "database") : Opened(f, "database") = {i}
          BY <2>3 DEF Nested
    <3>2. i \in Nat
          BY DEF Opened
    <3>3. d = i
          BY <2>2, <3>1, <3>2, LatestIs
    <3> QED BY <3>2, <3>3
  <2>5. LinesOf(f, d) \intersect (1 .. Len(f)) = LinesOf(f, d)
        BY <1>4, <2>4 DEF LinesOf
  <2>6. progress["database"] = SectionTo(f, "database", d, Len(f))
        BY <1>2, <1>4, <1>5, <2>1 DEF Built, Holds
  <2>7. Lines(f, "database", d) \intersect (1 .. Len(f)) = LinesOf(f, d)
        BY <2>5 DEF Lines
  <2>8. SectionTo(f, "database", d, Len(f)).options = Values(f, "database", LinesOf(f, d))
        BY <2>7 DEF SectionTo
  <2> QED BY <2>2, <2>6, <2>8
<1> QED BY <1>2, <1>3, <1>7, <1>8, <1>9 DEF Published, Declared, Listing

LEMMA BlankOptions == ASSUME NEW name PROVE [Blank(name) EXCEPT !.options = {}] = Blank(name)
<1>1. Blank(name) = [name |-> name, options |-> {}, servers |-> <<>>]
      BY DEF Blank
<1>2. [[name |-> name, options |-> {}, servers |-> <<>>] EXCEPT !.options = {}]
        = [name |-> name, options |-> {}, servers |-> <<>>]
      BY SMTT(30)
<1> QED BY <1>1, <1>2

LEMMA StartReadContent ==
  ASSUME NEW f \in File, StartRead(f) PROVE ContentInv'
<1>1. /\ file' = f /\ at' = 0 /\ isRead' = FALSE
      /\ progress' = [kind \in {"root"} |-> Blank("")]
      /\ listed' = [kind \in {"socket", "network", "plugin"} |-> <<>>]
      /\ outcome' = IF f = Missing THEN "exception" ELSE "reading"
      BY DEF StartRead
<1> SUFFICES ASSUME f # Missing PROVE Shape(f, 0) /\ Holds(progress', listed', f, 0)
    BY <1>1 DEF ContentInv, Built
<1>2. IsFile(f)
      BY FilesAreFiles
<1>3. Shape(f, 0) /\ InProgress(f, 0) = {"root"} /\ Inside(f, 0 + 1) = "root"
      BY <1>2, ShapeFirst, NestedToFirst, InsideFirst
<1>4. RootLines(f, 0) = {}
      BY DEF RootLines
<1>5. progress'["root"] = [Blank("") EXCEPT !.options = Values(f, "root", RootLines(f, 0))]
  <2>1. Values(f, "root", RootLines(f, 0)) = {}
        BY <1>4, ValuesNone
  <2>2. [Blank("") EXCEPT !.options = {}] = Blank("")
        BY BlankOptions
  <2>3. progress'["root"] = Blank("")
        BY <1>1
  <2> QED BY <2>1, <2>2, <2>3
<1>6. ASSUME NEW kind PROVE SectionsTo(f, kind, 0) = <<>>
  <2>1. Closed(f, kind, 0) = {}
        BY <1>2, ClosedBefore, BeforeNone
  <2>2. DOMAIN InOrder({}) = {}
        BY InOrderDomain, FS_EmptySet
  <2>3. SectionsTo(f, kind, 0) = [m \in {} |-> SectionTo(f, kind, InOrder({})[m], 0)]
        BY <2>1, <2>2 DEF SectionsTo
  <2> QED BY <2>3
<1> QED BY <1>1, <1>3, <1>5, <1>6 DEF Holds, Listing

LEMMA ReadContent == ASSUME ControlInv, ContentInv, Read PROVE ContentInv'
BY SectOpenContent, SectCloseContent, SetOptionContent, EndOfFileContent DEF Read

LEMMA ContentKept == ASSUME ContentInv, UNCHANGED reader PROVE ContentInv'
BY DEF ContentInv, Built, reader
====
