------------------------------ MODULE ConfigFile ------------------------------
(***************************************************************************)
(* The configuration file of DaZeus, as a sequence of lines: the options   *)
(* src/src/config.cpp knows, which files are well-formed, and what such a  *)
(* file declares, said by positions in the file.                           *)
(*                                                                         *)
(* The values of options are kept as they are; those that code looks at    *)
(* are ports, the scope of a plugin and the number of arguments of Var.    *)
(***************************************************************************)
EXTENDS Integers, Sequences, FiniteSets, Ranks

CONSTANT None   \* an optional without a value

Open(kind, name) == [call |-> "open", what |-> kind, value |-> name]
Closing(kind) == [call |-> "close", what |-> kind, value |-> None]
Option(name, value) == [call |-> "option", what |-> name, value |-> value]

Sections == {"socket", "database", "network", "server", "plugin"}

\* The names option() knows in each section.
OptionsOf(kind) ==
  CASE kind = "root"     -> {"nickname", "username", "fullname", "plugindirectory", "highlight"}
    [] kind = "socket"   -> {"type", "path", "host", "port"}
    [] kind = "database" -> {"type", "host", "port", "username", "password",
                             "filename", "database", "options"}
    [] kind = "network"  -> {"autoconnect", "nickname", "username", "fullname", "password"}
    [] kind = "server"   -> {"host", "port", "priority", "ssl", "sslverify"}
    [] kind = "plugin"   -> {"path", "executable", "scope", "parameters", "var"}

\* The values it refuses.
RefusedValue(kind, option, value) ==
  \/ kind = "socket" /\ option = "port" /\ value \notin 0 .. 65535
  \/ kind = "plugin" /\ option = "scope" /\ value \notin {"network", "global"}
  \/ kind = "plugin" /\ option = "var" /\ Len(value) # 2

\* The port of a database is cut to 16 bits.
Stored(kind, option, value) ==
  IF option = "port" /\ kind = "database" THEN value % 2^16 ELSE value

\* The configuration of a section: options that were given, as <<name, value>>,
\* Var by its first argument.
Blank(name) == [name |-> name, options |-> {}, servers |-> <<>>]

Slot(option, value) == IF option = "var" THEN <<"var", value[1]>> ELSE <<option>>

\* Scope Global sets nothing, also after Scope Network.
SetsNothing(option, value) == option = "scope" /\ value = "global"

Assigned(options, option, value) ==
  IF SetsNothing(option, value) THEN options ELSE
  {o \in options : o[1] # Slot(option, value)} \union {<<Slot(option, value), value>>}

\* The options of the root that a network starts with.
Inherited == {"nickname", "username", "fullname"}

-----------------------------------------------------------------------------
(* What a file declares.                                                   *)

Brackets(f) == {i \in 1 .. Len(f) : f[i].call # "option"}
Latest(S) == CHOOSE i \in S : \A j \in S : j <= i

\* The section line i stands in: the last one opened or closed before it says.
Inside(f, i) ==
  LET before == {j \in Brackets(f) : j < i}
      line == f[Latest(before)]
  IN IF before = {} THEN "root"
     ELSE IF line.call = "open" THEN line.what
     ELSE IF line.what = "server" THEN "network" ELSE "root"

Allowed(f, i) ==
  CASE f[i].call = "open"   -> Inside(f, i) = IF f[i].what = "server" THEN "network" ELSE "root"
    [] f[i].call = "close"  -> Inside(f, i) = f[i].what
    [] f[i].call = "option" -> /\ f[i].what \in OptionsOf(Inside(f, i))
                               /\ ~RefusedValue(Inside(f, i), f[i].what, f[i].value)

Opened(f, kind) == {i \in 1 .. Len(f) : f[i].call = "open" /\ f[i].what = kind}

\* Sections nest, every one is closed but perhaps the database, of which there
\* is one; plugins have names.
Nested(f) ==
  /\ \A i \in 1 .. Len(f) : Allowed(f, i)
  /\ \E i \in Opened(f, "database") : Opened(f, "database") = {i}
  /\ \A i \in Opened(f, "plugin") : f[i].value # ""
  /\ Inside(f, Len(f) + 1) \in {"root", "database"}

WellFormed(f) == Nested(f) /\ Inside(f, Len(f) + 1) = "root"

\* The option lines of the section that opens on line i.
LinesOf(f, i) ==
  {j \in i + 1 .. Len(f) :
     /\ f[j].call = "option" /\ Inside(f, j) = f[i].what
     /\ \A k \in Opened(f, f[i].what) : ~(i < k /\ k < j)}

RootLines(f, i) == {j \in 1 .. i : f[j].call = "option" /\ Inside(f, j) = "root"}

\* The last line for an option counts, for the scope any line with Network.
Values(f, kind, lines) ==
  LET slot(j) == Slot(f[j].what, f[j].value)
      setting == {j \in lines : ~SetsNothing(f[j].what, f[j].value)}
  IN {<<slot(j), Stored(kind, f[j].what, f[j].value)>> :
        j \in {j \in setting : \A k \in setting : slot(k) = slot(j) => k <= j}}

\* A network has a name of its own, or else the last one set before it opens.
NetworkLines(f, i) == LinesOf(f, i) \union {j \in RootLines(f, i) : f[j].what \in Inherited}

DeclaredServers(f, i) ==
  LET servers == InOrder({j \in Opened(f, "server") :
                            j > i /\ \A k \in Opened(f, "network") : ~(i < k /\ k < j)})
  IN [n \in DOMAIN servers |->
        [Blank(None) EXCEPT !.options = Values(f, "server", LinesOf(f, servers[n]))]]

DeclaredSection(f, kind, i) ==
  [name    |-> f[i].value,
   options |-> Values(f, kind, IF kind = "network" THEN NetworkLines(f, i) ELSE LinesOf(f, i)),
   servers |-> IF kind = "network" THEN DeclaredServers(f, i) ELSE <<>>]

DeclaredSections(f, kind) ==
  LET starts == InOrder(Opened(f, kind))
  IN [n \in DOMAIN starts |-> DeclaredSection(f, kind, starts[n])]

Declared(f) ==
  [global   |-> Values(f, "root", RootLines(f, Len(f))),
   sockets  |-> DeclaredSections(f, "socket"),
   networks |-> DeclaredSections(f, "network"),
   plugins  |-> DeclaredSections(f, "plugin"),
   database |-> Values(f, "database", LinesOf(f, Latest(Opened(f, "database"))))]
=============================================================================
