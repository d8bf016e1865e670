------------------------------- MODULE Paths -------------------------------
(***************************************************************************)
(* File names and paths of the filesystem protocol.                        *)
(*                                                                         *)
(* A path is the sequence of the components that separate its slashes.  A  *)
(* name sent by a client is any text at all, and is modelled by what       *)
(* splitting it at "/" gives: <<s>> is an ordinary file name, <<".">> is   *)
(* the text ".", and a text with a slash in it has two components.  Longer *)
(* texts are told apart by nothing in the code.                            *)
(***************************************************************************)
EXTENDS Naturals, Sequences, SequencesExt

CONSTANT Segment    \* the ordinary file names

Special == {"", ".", ".."}

ASSUME SegmentAssumption == Segment \cap Special = {}

Component == Segment \cup Special
Name      == {<<c>> : c \in Component} \cup {<<c, d>> : c, d \in Component}
Path      == Seq(Segment)

(***************************************************************************)
(* Two wrong versions of validFileName, for the mutation runs: one forgets *)
(* "..", the other forgets to look for slashes.                            *)
(***************************************************************************)
validFileNameDotDot(name) == name # <<"">> /\ name # <<".">> /\ Len(name) = 1
validFileNameSlash(name)  == name # <<"">> /\ name # <<".">> /\ name # <<"..">>

(* filesystem/local/local.go: validFileName *)
validFileName(name) ==
    /\ name # <<"">>
    /\ name # <<".">>
    /\ name # <<"..">>
    /\ Len(name) = 1                    \* !strings.Contains(name, "/")

(***************************************************************************)
(* Where the operating system ends up when it follows component c from the *)
(* directory p: "" and "." stay, ".." goes to the parent.  No symbolic     *)
(* links: nothing in the protocol creates one.                             *)
(***************************************************************************)
Follow(p, c) ==
    IF c \in Segment THEN Append(p, c)
    ELSE IF c = ".." /\ p # <<>> THEN Front(p) ELSE p

(* d.Path + "/" + name, as the operating system resolves it. *)
Join(p, name) ==
    LET q == Follow(p, name[1])
    IN  IF Len(name) = 1 THEN q ELSE Follow(q, name[2])
=============================================================================
