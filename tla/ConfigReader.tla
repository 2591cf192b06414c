----------------------------- MODULE ConfigReader -----------------------------
(***************************************************************************)
(* ConfigReader::read() of src/src/config.cpp.  The dotconf library calls  *)
(* sect_open, sect_close or option for every line of the file; a string    *)
(* returned by one of them ends the read.                                  *)
(*                                                                         *)
(* ConfigFile has the lines, and what a file means without a reader.       *)
(***************************************************************************)
EXTENDS ConfigFile

CONSTANTS
  File,      \* the contents the configuration file may have
  Missing    \* no file

\* dotconf hands out only sections that are registered with it.
ASSUME FileAssumption ==
  \A f \in File \ {Missing} :
    /\ Len(f) \in Nat
    /\ \A i \in 1 .. Len(f) :
         \/ f[i].call = "option"
         \/ f[i].call \in {"open", "close"} /\ f[i].what \in Sections

VARIABLES
  file,      \* what is being read, or was read last
  at,        \* how many lines dotconf has handed out
  section,   \* current_section
  progress,  \* what is being built, a function on the kinds of section that are
  listed,    \* sockets, networks and plugins that are complete
  outcome,   \* "unread", "reading", "read", "exception" or "abort"
  isRead,    \* is_read
  config     \* what the get functions return

reader == <<file, at, section, progress, listed, outcome, isRead, config>>
building == <<section, progress, listed>>

ReaderInit ==
  /\ file = Missing
  /\ at = 0
  /\ section = "root"
  /\ progress = [kind \in {} |-> Blank("")]
  /\ listed = [kind \in {"socket", "network", "plugin"} |-> <<>>]
  /\ outcome = "unread"
  /\ isRead = FALSE
  /\ config = None

-----------------------------------------------------------------------------
(* read().                                                                 *)

\* Mutant: the state of the last read is used again.
StartReadAgain(f) ==
  /\ file' = f
  /\ at' = 0
  /\ section' = "root"
  /\ progress' = [kind \in {"root"} |-> Blank("")]
  /\ isRead' = FALSE
  /\ outcome' = IF f = Missing THEN "exception" ELSE "reading"
  /\ UNCHANGED <<listed, config>>

\* dotconf_create(); a file that cannot be opened is an exception.
StartRead(f) ==
  /\ file' = f
  /\ at' = 0
  /\ section' = "root"
  /\ progress' = [kind \in {"root"} |-> Blank("")]
  /\ listed' = [kind \in {"socket", "network", "plugin"} |-> <<>>]
  /\ isRead' = FALSE
  /\ outcome' = IF f = Missing THEN "exception" ELSE "reading"
  /\ UNCHANGED config

Reading == outcome = "reading" /\ at < Len(file)
Line == file[at + 1]

Taken ==
  /\ at' = at + 1
  /\ UNCHANGED <<file, isRead, config>>

\* error_handler() stops dotconf_command_loop(), and read() throws.
Error == outcome' = "exception" /\ UNCHANGED building

\* What a section starts with: a network has the names that the root has so far.
Started(kind, name) ==
  [Blank(name) EXCEPT !.options =
     IF kind = "network"
     THEN {o \in progress["root"].options : o[1][1] \in Inherited} ELSE {}]

Enter(kind, name) ==
  /\ section' = kind
  /\ progress' = [k \in DOMAIN progress \union {kind} |->
                    IF k = kind THEN Started(kind, name) ELSE progress[k]]
  /\ UNCHANGED <<listed, outcome>>

\* Mutant: a second database replaces the first.
OpensAgain(kind, name) == kind # "server" /\ (kind = "plugin" => name # "")

\* In the root: any section but a server, one database, plugins with a name.
OpensInRoot(kind, name) ==
  /\ kind # "server"
  /\ kind = "database" => "database" \notin DOMAIN progress
  /\ kind = "plugin" => name # ""

\* A network ignores the start of anything but a server.
SectOpen ==
  /\ Reading /\ Line.call = "open"
  /\ CASE section = "root" /\ OpensInRoot(Line.what, Line.value) ->
            Enter(Line.what, Line.value)
       [] section = "network" /\ Line.what = "server" -> Enter("server", None)
       [] section = "network" /\ Line.what # "server" -> UNCHANGED <<building, outcome>>
       [] OTHER -> Error
  /\ Taken

Without(kind) == [k \in DOMAIN progress \ {kind} |-> progress[k]]

\* The database stays in progress, the others are listed.
Leave(kind) ==
  /\ section' = IF kind = "server" THEN "network" ELSE "root"
  /\ progress' =
       CASE kind = "database" -> progress
         [] kind = "server" ->
              [Without("server") EXCEPT !["network"].servers = Append(@, progress["server"])]
         [] OTHER -> Without(kind)
  /\ listed' = IF kind \in DOMAIN listed
               THEN [listed EXCEPT ![kind] = Append(@, progress[kind])] ELSE listed
  /\ UNCHANGED outcome

SectClose ==
  /\ Reading /\ Line.call = "close"
  /\ IF section # "root" /\ Line.what = section THEN Leave(section) ELSE Error
  /\ Taken

Assign ==
  /\ progress' = [progress EXCEPT ![section].options = Assigned(@, Line.what, Stored(section, Line.what, Line.value))]
  /\ UNCHANGED <<section, listed, outcome>>

SetOption ==
  /\ Reading /\ Line.call = "option"
  /\ IF /\ Line.what \in OptionsOf(section)
        /\ ~RefusedValue(section, Line.what, Line.value)
     THEN Assign ELSE Error
  /\ Taken

\* Only the database may still be open at the end; anything else aborts.
Unfinished == ~(DOMAIN progress \subseteq {"root", "database"})

Published ==
  [global   |-> progress["root"].options,
   sockets  |-> listed["socket"],
   networks |-> listed["network"],
   plugins  |-> listed["plugin"],
   database |-> progress["database"].options]

\* No database is an exception, a section without an end a failed assertion.
EndOfFile ==
  /\ outcome = "reading" /\ at = Len(file)
  /\ \/ /\ "database" \notin DOMAIN progress
        /\ outcome' = "exception"
        /\ UNCHANGED <<isRead, config>>
     \/ /\ "database" \in DOMAIN progress /\ Unfinished
        /\ outcome' = "abort"
        /\ UNCHANGED <<isRead, config>>
     \/ /\ "database" \in DOMAIN progress /\ ~Unfinished
        /\ outcome' = "read"
        /\ isRead' = TRUE
        /\ config' = Published
  /\ UNCHANGED <<file, at, building>>

Read == SectOpen \/ SectClose \/ SetOption \/ EndOfFile
=============================================================================
