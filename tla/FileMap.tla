------------------------------ MODULE FileMap ------------------------------
(***************************************************************************)
(* What a computer's file system promises its programs: a map from paths   *)
(* to directories and to the bytes of files, changed by one whole          *)
(* operation at a time and by nothing else.  In particular a restart, the  *)
(* closing of a handle, an abandoned draft and a failed call change        *)
(* nothing, and the bytes of a file are always there to be read.           *)
(***************************************************************************)
EXTENDS Integers, Sequences

VARIABLE map \* path -> [kind, bytes, exec, readable]

Within(q, p) == Len(p) <= Len(q) /\ SubSeq(q, 1, Len(p)) = p
Above(p) == SubSeq(p, 1, Len(p) - 1)

Root(p) == Len(p) = 1
Directory(p) == Root(p) \/ (p \in DOMAIN map /\ map[p].kind = "directory")
Below(p) == {q \in DOMAIN map : Within(q, p)}
Readable(entry) == entry.readable
Extended(f, x, y) == [z \in DOMAIN f \cup {x} |-> IF z = x THEN y ELSE f[z]]

MapInit == map = << >>

\* An entry appears, or the bytes of a file are replaced; nothing else changes.
Put(p) ==
    /\ Directory(Above(p))
    /\ p \in DOMAIN map => map[p].kind = "file" /\ map'[p].kind = "file"
    /\ Readable(map'[p])
    /\ map' = Extended(map, p, map'[p])

\* An entry with nothing below it disappears.
Delete(p) ==
    /\ Below(p) = {p}
    /\ map' = [q \in DOMAIN map \ {p} |-> map[q]]

\* A whole subtree moves to a place that is free or gives way.
Move(p, to) ==
    LET target(q) == to \o SubSeq(q, Len(p) + 1, Len(q)) IN
    /\ ~Within(to, p)
    /\ Directory(Above(to))
    /\ Below(to) \subseteq {to}
    /\ DOMAIN map' = (DOMAIN map \ (Below(p) \cup {to})) \cup {target(q) : q \in Below(p)}
    /\ \A q \in Below(p) : map'[target(q)] = map[q]
    /\ \A q \in DOMAIN map \ (Below(p) \cup {to}) : map'[q] = map[q]

MapNext ==
    \/ \E p \in DOMAIN map' : Put(p)
    \/ \E p \in DOMAIN map : Delete(p)
    \/ \E p \in DOMAIN map, to \in DOMAIN map' : Move(p, to)

MapSpec == MapInit /\ [][MapNext]_map
=============================================================================
