-------------------------------- MODULE Hosts -------------------------------
(***************************************************************************)
(* The managed block of /etc/hosts (cmd/ts-multinet/hosts.go): which name  *)
(* each selected host gets, and how the block is put into, replaced in and *)
(* taken out of a file that other programs edit too.                       *)
(*                                                                         *)
(* A file is the sequence of its lines as strings.Split returns them: the  *)
(* final newline is a last blank line.  A name is a sequence of labels.    *)
(***************************************************************************)
EXTENDS Naturals, FiniteSetsExt, SequencesExt

CONSTANTS
  UserLine,       \* lines of other programs
  HostsInputs,    \* sets of entries applySelections may assemble
  MaxUserLines    \* bound: lines of others in the file

ASSUME HostsAssumption == \A E \in HostsInputs : IsFiniteSet(E)

VARIABLES
  file,       \* the lines of the hosts file
  applied,    \* the entries the daemon wrote last, {} when it removed them
  torn        \* a write was cut short by a crash

hostsVars == <<file, applied, torn>>
-----------------------------------------------------------------------------
(* qualifyHostsAliases: bare names first, qualified where two tailnets     *)
(* claim one or the tailnet asks for it; of what still collides, every     *)
(* claimer falls back to its MagicDNS name.                                *)
Claims(E, alias) == {e.tailnet : e \in {x \in E : ~x.force /\ x.alias = alias}}

Qualified(E, e) ==
  IF e.force \/ Cardinality(Claims(E, e.alias)) > 1 THEN e.alias \o e.domain ELSE e.alias

(* A slip: what still collides stays. *)
AliasOnce(E, e) == Qualified(E, e)

Alias(E, e) ==
  IF \E x \in E : Qualified(E, x) = Qualified(E, e) /\ x.ip # e.ip
  THEN e.fqdn ELSE Qualified(E, e)

(* hostsLine: the address of the entry, the alias, and the native name if  *)
(* asked for.                                                              *)
HostsLine(E, e) ==
  [kind |-> "own", of |-> e, names |-> {Alias(E, e)} \cup (IF e.native THEN {e.fqdn} ELSE {})]
-----------------------------------------------------------------------------
Blank == [kind |-> "blank"]
Begin == [kind |-> "begin"]
End == [kind |-> "end"]

TrimBlanks(s) ==
  LET used == {i \in DOMAIN s : s[i] # Blank}
  IN IF used = {} THEN <<>> ELSE SubSeq(s, 1, Max(used))

(* writeHostsLines ends the file with exactly one newline.                 *)
Normalized(out) == TrimBlanks(out) \o <<Blank>>

LastIndex(s, l) == Max({0} \cup {i \in DOMAIN s : s[i] = l})

(* hostsBlockSpan: the last begin and the last end, if in this order.      *)
HasBlock(s) == LastIndex(s, Begin) > 0 /\ LastIndex(s, End) > LastIndex(s, Begin)
Before(s) == SubSeq(s, 1, LastIndex(s, Begin) - 1)
After(s) == SubSeq(s, LastIndex(s, End) + 1, Len(s))

Block(E) == <<Begin>> \o SetToSeq({HostsLine(E, e) : e \in E}) \o <<End>>

(* writeHostsBlock: the block is replaced where it stands, or appended     *)
(* after one blank line.                                                   *)
WriteBlock(s, E) ==
  IF HasBlock(s) THEN Normalized(Before(s) \o Block(E) \o After(s))
  ELSE Normalized(TrimBlanks(s) \o <<Blank>> \o Block(E))

(* A slip: everything after the block goes too. *)
RemoveToEnd(s) == IF HasBlock(s) THEN Normalized(Before(s)) ELSE s

(* removeHostsBlock: the block, and the blank line in front of it when it  *)
(* is the last thing in the file.                                          *)
RemoveBlock(s) ==
  LET atEOF == TrimBlanks(After(s)) = <<>>
      head == Before(s)
      cut == IF atEOF /\ head # <<>> /\ Last(head) = Blank THEN Front(head) ELSE head
  IN IF HasBlock(s) THEN Normalized(cut \o After(s)) ELSE s
-----------------------------------------------------------------------------
HostsInit == file \in {<<Blank>>, <<Blank, Blank>>} /\ applied = {} /\ torn = FALSE

(* applySelections.                                                        *)
Apply(E) ==
  /\ file' = WriteBlock(file, E)
  /\ applied' = E
  /\ UNCHANGED torn

(* Shutdown, or the cleanup command after a crash.                         *)
Cleanup ==
  /\ file' = RemoveBlock(file)
  /\ applied' = {}
  /\ UNCHANGED torn

(* os.WriteFile truncates the file and writes it from the start: a crash   *)
(* leaves the first lines of it, however many, and the next start finds    *)
(* that.                                                                   *)
CrashInWrite(E) ==
  /\ ~torn
  /\ \E n \in 0 .. Len(WriteBlock(file, E)) - 1 : file' = SubSeq(WriteBlock(file, E), 1, n)
  /\ torn' = TRUE
  /\ UNCHANGED applied

UserLines(s) ==
  LET upto[k \in 0 .. Len(s)] ==
        IF k = 0 THEN <<>>
        ELSE IF s[k].kind = "user" THEN Append(upto[k - 1], s[k]) ELSE upto[k - 1]
  IN upto[Len(s)]

(* Another program adds a line of its own, with a blank one after it or    *)
(* not, anywhere but inside the block.                                     *)
Edit(u, more) ==
  /\ Len(UserLines(file)) < MaxUserLines
  /\ \E i \in 0 .. Len(file) :
       /\ HasBlock(file) => i < LastIndex(file, Begin) \/ i >= LastIndex(file, End)
       /\ file' = SubSeq(file, 1, i) \o <<[kind |-> "user", line |-> u]>> \o more
                    \o SubSeq(file, i + 1, Len(file))
  /\ UNCHANGED <<applied, torn>>

HostsNext ==
  \/ \E E \in HostsInputs : Apply(E) \/ CrashInWrite(E)
  \/ Cleanup
  \/ \E u \in UserLine, more \in {<<>>, <<Blank>>} : Edit(u, more)
-----------------------------------------------------------------------------
OwnLines(s) == {s[i] : i \in {j \in DOMAIN s : s[j].kind = "own"}}

(* At most one block, and our lines in it: what every completed write      *)
(* leaves.  A begin marker that a crash left without its end is outside.   *)
WellFormed(s) ==
  LET count(l) == Cardinality({i \in DOMAIN s : s[i] = l}) IN
  /\ count(Begin) = count(End) /\ count(Begin) <= 1
  /\ \A i \in DOMAIN s : s[i].kind = "own" => LastIndex(s, Begin) < i /\ i < LastIndex(s, End)

(* The user gave the tailnet of f the MagicDNS suffix of the tailnet of e  *)
(* as its friendly domain, or has one tailnet configured twice.            *)
Borrows(f, e) == e.fqdn \in {f.fqdn, f.alias, f.alias \o f.domain}

(* "A name must never appear twice with different IPs": /etc/hosts would   *)
(* resolve it by file order (qualifyHostsAliases).  It does not, unless    *)
(* the one host is given the MagicDNS name of the other.                   *)
NoAmbiguousName ==
  WellFormed(file) =>
    \A k, l \in OwnLines(file) :
      k.names \cap l.names # {} =>
        k.of.ip = l.of.ip \/ Borrows(k.of, l.of) \/ Borrows(l.of, k.of)

(* The words of the comment, without exception.                            *)
NameAppearsOnce ==
  WellFormed(file) =>
    \A k, l \in OwnLines(file) : k.names \cap l.names # {} => k.of.ip = l.of.ip

(* A write puts in the daemon's lines and no others, a removal leaves none *)
(* and no marker, both keep every line of other programs in its order; and *)
(* only a crash can leave a file of which this cannot be said.             *)
HostsFileKept ==
  [][Apply(applied') \/ Cleanup =>
       /\ UserLines(file') = UserLines(file)
       /\ ~torn => WellFormed(file)
       /\ WellFormed(file) => /\ WellFormed(file')
                              /\ OwnLines(file') = {HostsLine(applied', e) : e \in applied'}
                              /\ Cleanup => ~HasBlock(file')]_hostsVars
=============================================================================
