------------------------------ MODULE Persistence ------------------------------
(***************************************************************************)
(* From the bytes of a client to the bytes on disk and back: the reader of *)
(* a connection (app/client.go, app/resp/reader.go), the append-only file  *)
(* (app/aof.go), and the boot, which loads the snapshot, finds the file by *)
(* its manifest and replays it (app/main.go, app/rdb/rdb.go).              *)
(*                                                                         *)
(* One connection, which sends commands of the write set; what they do to  *)
(* the store is the subject of WritePath.  Bytes arrive one by one, and    *)
(* the peer may hang up after any of them.  The machine may lose power at  *)
(* any moment: of the file it keeps what was synced, and any part of the   *)
(* rest.  A write to the file may fail half-way, which the handler         *)
(* ignores.                                                                *)
(***************************************************************************)
EXTENDS Rdb, FiniteSets

CONSTANTS
    Snapshots,      \* snapshot files [bytes, whole, entries]: entries is what a
                    \* reader of the format finds in a file that is whole
    Items,          \* what a peer sends [bytes, cmd, ok]: cmd is <<>> when there is none,
                    \* and ok is FALSE when its last byte breaks the protocol
    Fsyncs,         \* settings of appendfsync
    MaxSent,        \* bounds: items of the peer, boots, failed writes
    MaxBoots,
    MaxFails

ASSUME BoundsAssumption == {MaxSent, MaxBoots, MaxFails} \subseteq Nat
ASSUME FsyncsAssumption == Fsyncs \subseteq {"always", "everysec", "no"}

VARIABLES
    snap,       \* the snapshot file
    fsync,      \* appendfsync
    manifest,   \* "missing", "empty" or "written"
    file,       \* the append-only file
    synced,     \* how many of its bytes are safe
    phase,      \* "rdb", "manifest", "create", "replay", "listen", "up" or "fatal"
    pos,        \* position in the file being read
    expiresAt,  \* Load's variable
    db,         \* the keys the snapshot has put into the store
    replayed,   \* the commands of the file that were applied
    wire,       \* bytes of the connection that have arrived
    rest,       \* bytes of the current item that have not
    rd,         \* position of the connection's reader
    got,        \* commands it has returned
    conn,       \* "open", "closed", or how the handler ended
    pc,         \* the handler: "read", "append" or "sync"
    sent,       \* history: the items begun
    appended,   \* history: the commands whose bytes are all in the file
    torn,       \* history: "no", "tail" (half a command ends the file) or "buried"
    boots,      \* counters for the bounds
    fails

loadVars == <<pos, expiresAt, db, replayed>>
diskVars == <<manifest, file, synced>>
connVars == <<wire, rest, rd, got, conn, pc, sent>>
pastVars == <<appended, torn, boots, fails>>
vars == <<snap, fsync, phase, loadVars, diskVars, connVars, pastVars>>

Never == -1

Init ==
    /\ snap \in Snapshots /\ fsync \in Fsyncs
    /\ manifest = "missing" /\ file = <<>> /\ synced = 0
    /\ phase = "rdb" /\ pos = 1 /\ expiresAt = Never /\ db = [k \in {} |-> {}] /\ replayed = <<>>
    /\ wire = <<>> /\ rest = <<>> /\ rd = 1 /\ got = <<>> /\ conn = "open" /\ pc = "read" /\ sent = <<>>
    /\ appended = <<>> /\ torn = "no" /\ boots = 1 /\ fails = 0

--------------------------------------------------------------------------------
(* The snapshot: one step for each opcode *)

Loading(op) == phase = "rdb" /\ pos > 9 /\ pos <= Len(snap.bytes) /\ snap.bytes[pos] = op

\* A field was read, or the load fails and main exits.
Read(r) ==
    IF r.is = "got" THEN pos' = r.p /\ UNCHANGED phase ELSE phase' = "fatal" /\ UNCHANGED pos

KeepDisk == UNCHANGED <<snap, fsync, diskVars, connVars, pastVars>>

Magic == <<82, 69, 68, 73, 83>>

LoadHeader ==
    /\ phase = "rdb" /\ pos = 1
    /\ IF Len(snap.bytes) >= 9 /\ SubSeq(snap.bytes, 1, 5) = Magic
       THEN pos' = 10 /\ UNCHANGED phase
       ELSE phase' = "fatal" /\ UNCHANGED pos
    /\ UNCHANGED <<expiresAt, db, replayed>> /\ KeepDisk

LoadAux ==
    /\ Loading(opAux)
    /\ Read(After(readString(snap.bytes, pos + 1), LAMBDA name : readString(snap.bytes, name.p)))
    /\ UNCHANGED <<expiresAt, db, replayed>> /\ KeepDisk

LoadSelectDB ==
    /\ Loading(opSelectDB)
    /\ Read(readPlainSize(snap.bytes, pos + 1))
    /\ UNCHANGED <<expiresAt, db, replayed>> /\ KeepDisk

LoadResizeDB ==
    /\ Loading(opResizeDB)
    /\ Read(After(readPlainSize(snap.bytes, pos + 1), LAMBDA size : readPlainSize(snap.bytes, size.p)))
    /\ UNCHANGED <<expiresAt, db, replayed>> /\ KeepDisk

\* Milliseconds in 8 bytes, or seconds in 4.
LoadExpiry(op, width, unit) ==
    LET t == ReadFull(snap.bytes, pos + 1, width) IN
    /\ Loading(op)
    /\ Read(t)
    /\ expiresAt' = IF t.is = "got" THEN LittleEndian(t.v) * unit ELSE expiresAt
    /\ UNCHANGED <<db, replayed>> /\ KeepDisk

LoadExpireMs == LoadExpiry(opExpireMs, 8, 1)
LoadExpireSec == LoadExpiry(opExpireSec, 4, 1000)

KeyValue(b, p) ==
    After(readString(b, p), LAMBDA key :
        After(readString(b, key.p), LAMBDA value : Got([key |-> key.v, value |-> value.v], value.p)))

\* The expiry goes to this key, and what remains for the next one is left.
LoadString(left) ==
    /\ Loading(typeString)
    /\ \E r \in {KeyValue(snap.bytes, pos + 1)} :
           /\ Read(r)
           /\ IF r.is = "got"
              THEN /\ db' = (r.v.key :> [value |-> r.v.value, expiresAt |-> expiresAt]) @@ db
                   /\ expiresAt' = left
              ELSE UNCHANGED <<db, expiresAt>>
    /\ UNCHANGED replayed /\ KeepDisk

\* Mutant: the expiry is not reset after its key.
LoadKeySticky == LoadString(expiresAt)

LoadKey == LoadString(Never)

LoadEOF ==
    /\ Loading(opEOF)
    /\ phase' = "manifest"
    /\ UNCHANGED loadVars /\ KeepDisk

\* The file ends before opEOF, or has another opcode.
LoadFails ==
    /\ phase = "rdb" /\ pos > 9
    /\ pos <= Len(snap.bytes) =>
           snap.bytes[pos] \notin {opAux, opResizeDB, opExpireMs, opExpireSec, opSelectDB, opEOF, typeString}
    /\ phase' = "fatal"
    /\ UNCHANGED loadVars /\ KeepDisk

Load ==
    \/ LoadHeader \/ LoadAux \/ LoadSelectDB \/ LoadResizeDB
    \/ LoadExpireMs \/ LoadExpireSec \/ LoadKey \/ LoadEOF \/ LoadFails

--------------------------------------------------------------------------------
(* The manifest and the replay *)

\* os.WriteFile creates an empty file, and fills it.
CreateManifest ==
    /\ phase = "manifest" /\ manifest = "missing"
    /\ manifest' = "empty" /\ phase' = "create"
    /\ UNCHANGED <<snap, fsync, file, synced, loadVars, connVars, pastVars>>

WriteManifest ==
    /\ phase = "create"
    /\ manifest' = "written" /\ phase' = "replay" /\ pos' = 1
    /\ UNCHANGED <<snap, fsync, file, synced, expiresAt, db, replayed, connVars, pastVars>>

\* A manifest that names no file is fatal.
ReadManifest ==
    /\ phase = "manifest" /\ manifest # "missing"
    /\ phase' = IF manifest = "written" THEN "replay" ELSE "fatal"
    /\ pos' = 1
    /\ UNCHANGED <<expiresAt, db, replayed>> /\ KeepDisk

\* Replay's loop: the end between two commands is the end, everything else is fatal.
ReplayUntil(ends) ==
    /\ phase = "replay"
    /\ \E cmd \in {ReadCommand(file, pos)} :
           IF cmd.is = "got"
           THEN replayed' = Append(replayed, cmd.v) /\ pos' = cmd.p /\ UNCHANGED phase
           ELSE phase' = (IF cmd.is \in ends THEN "listen" ELSE "fatal") /\ UNCHANGED <<replayed, pos>>
    /\ UNCHANGED <<expiresAt, db>> /\ KeepDisk

\* Mutant: an unexpected end of the file is an end too.
ReplayLenient == ReplayUntil({"end", "short"})

Replay == ReplayUntil({"end"})

\* net.Listen, and the first connection.
Listen ==
    /\ phase = "listen" /\ phase' = "up"
    /\ UNCHANGED loadVars /\ KeepDisk

--------------------------------------------------------------------------------
(* The connection and its handler *)

\* The peer writes an item; its bytes arrive one by one.
Send(i) ==
    /\ phase = "up" /\ conn = "open" /\ rest = <<>> /\ Len(sent) < MaxSent
    /\ sent' = Append(sent, i) /\ wire' = Append(wire, Head(i.bytes)) /\ rest' = Tail(i.bytes)
    /\ UNCHANGED <<snap, fsync, phase, rd, got, conn, pc, loadVars, diskVars, pastVars>>

Arrive ==
    /\ phase = "up" /\ conn = "open" /\ rest # <<>>
    /\ wire' = Append(wire, Head(rest)) /\ rest' = Tail(rest)
    /\ UNCHANGED <<snap, fsync, phase, rd, got, conn, pc, sent, loadVars, diskVars, pastVars>>

HangUp ==
    /\ phase = "up" /\ conn = "open"
    /\ conn' = "closed"
    /\ UNCHANGED <<snap, fsync, phase, wire, rest, rd, got, pc, sent, loadVars, diskVars, pastVars>>

\* The handler gets the next command, or ends.  At an end that more bytes may
\* follow it waits.
HandlerRead ==
    /\ phase = "up" /\ pc = "read" /\ conn \in {"open", "closed"}
    /\ \E cmd \in {ReadCommand(wire, rd)} :
           \/ /\ cmd.is = "got"
              /\ got' = Append(got, cmd.v) /\ rd' = cmd.p /\ pc' = "append" /\ UNCHANGED conn
           \/ /\ cmd.is = "protocol"
              /\ conn' = "ProtocolError" /\ UNCHANGED <<got, rd, pc>>
           \/ /\ cmd.is \in {"end", "short"} /\ conn = "closed"
              /\ conn' = (IF cmd.is = "end" THEN "EOF" ELSE "UnexpectedEOF") /\ UNCHANGED <<got, rd, pc>>
    /\ UNCHANGED <<snap, fsync, phase, wire, rest, sent, loadVars, diskVars, pastVars>>

\* Append writes the command; with "always" it then syncs the file.
AppendWrite ==
    LET cmd == Last(got) IN
    /\ phase = "up" /\ pc = "append"
    /\ file' = file \o EncodeRaw(cmd)
    /\ appended' = IF torn = "no" THEN Append(appended, cmd) ELSE appended
    /\ torn' = IF torn = "no" THEN "no" ELSE "buried"
    /\ pc' = IF fsync = "always" THEN "sync" ELSE "read"
    /\ UNCHANGED <<snap, fsync, phase, manifest, synced, wire, rest, rd, got, conn, sent, loadVars, boots, fails>>

AppendSync ==
    /\ phase = "up" /\ pc = "sync"
    /\ synced' = Len(file) /\ pc' = "read"
    /\ UNCHANGED <<snap, fsync, phase, manifest, file, wire, rest, rd, got, conn, sent, loadVars, pastVars>>

\* The write fails after n bytes; the handler does not look at the error.
AppendFails ==
    LET bytes == EncodeRaw(Last(got)) IN
    /\ phase = "up" /\ pc = "append" /\ fails < MaxFails
    /\ \E n \in 0 .. Len(bytes) - 1 :
           /\ file' = file \o SubSeq(bytes, 1, n)
           /\ torn' = IF n = 0 THEN torn ELSE IF torn = "no" THEN "tail" ELSE "buried"
    /\ pc' = "read" /\ fails' = fails + 1
    /\ UNCHANGED <<snap, fsync, phase, manifest, synced, wire, rest, rd, got, conn, sent, loadVars, appended, boots>>

--------------------------------------------------------------------------------
(* Power loss and restart *)

\* The bytes of the first n commands.
Size(n) == Len(FlattenSeq([i \in 1 .. n |-> EncodeRaw(appended[i])]))

\* Of the file a prefix remains, of the process nothing.
PowerLoss ==
    /\ phase \in {"rdb", "manifest", "create", "replay", "listen", "up"} /\ boots < MaxBoots
    /\ phase' = "rdb" /\ boots' = boots + 1
    /\ \E n \in synced .. Len(file) :
           LET kept == {k \in 0 .. Len(appended) : Size(k) <= n}
               k == CHOOSE x \in kept : \A y \in kept : y <= x
           IN  /\ file' = SubSeq(file, 1, n) /\ synced' = n
               /\ appended' = SubSeq(appended, 1, k)
               /\ torn' = IF n = Size(k) THEN "no"
                          ELSE IF torn = "buried" /\ k = Len(appended) THEN "buried" ELSE "tail"
    /\ pos' = 1 /\ expiresAt' = Never /\ db' = [x \in {} |-> {}] /\ replayed' = <<>>
    /\ wire' = <<>> /\ rest' = <<>> /\ rd' = 1 /\ got' = <<>> /\ conn' = "open" /\ pc' = "read" /\ sent' = <<>>
    /\ UNCHANGED <<snap, fsync, manifest, fails>>

Next ==
    \/ Load
    \/ CreateManifest \/ WriteManifest \/ ReadManifest \/ Replay \/ Listen
    \/ \E i \in Items : Send(i)
    \/ Arrive \/ HangUp \/ HandlerRead
    \/ AppendWrite \/ AppendSync \/ AppendFails
    \/ PowerLoss

Spec == Init /\ [][Next]_vars

--------------------------------------------------------------------------------
(* Properties *)

\* The commands in a sequence of items, up to one that breaks the protocol.
Breaks(items) == {i \in DOMAIN items : ~items[i].ok}
Commands(items) ==
    LET sound == IF Breaks(items) = {} THEN items ELSE SubSeq(items, 1, Min(Breaks(items)) - 1)
    IN  SelectSeq([i \in DOMAIN sound |-> sound[i].cmd], LAMBDA cmd : cmd # <<>>)

\* However the bytes arrive, ReadCommand returns exactly the commands the peer has
\* sent in full, in order, and none behind a break of the protocol.  When it ends it
\* has returned all of them: at the break with a ProtocolError, else after the hang-up
\* with io.EOF between two items and io.ErrUnexpectedEOF within one (src/README.md:333).
ReaderExact ==
    LET arrived == IF rest = <<>> THEN sent ELSE Front(sent) IN
    /\ IsPrefix(got, Commands(arrived))
    /\ conn \in {"ProtocolError", "EOF", "UnexpectedEOF"} =>
           /\ got = Commands(arrived)
           /\ conn = (IF Breaks(arrived) # {} THEN "ProtocolError"
                      ELSE IF rest = <<>> THEN "EOF" ELSE "UnexpectedEOF")

\* Whatever was lost and whenever, a boot that gets as far as listening has replayed
\* exactly the commands whose bytes the file holds in full, and a boot refuses only
\* a snapshot that is not whole, an empty manifest, or a file with half a command
\* in it; with half a command at its end, the file is refused always.
BootExact ==
    /\ phase = "listen" /\ torn # "buried" => torn = "no" /\ replayed = appended
    /\ phase = "fatal" => ~snap.whole \/ manifest = "empty" \/ torn # "no"

\* A snapshot that ends early, anywhere, or is damaged never passes for a whole one,
\* and of a whole one every key has its own value and its own expiry.
LoadExact == phase \notin {"rdb", "fatal"} => snap.whole /\ db = snap.entries
================================================================================
