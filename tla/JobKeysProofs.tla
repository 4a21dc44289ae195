---------------------------- MODULE JobKeysProofs ----------------------------
(***************************************************************************)
(* Proofs about JobKeys, for every number of tiles, calls, retries and     *)
(* failures.                                                               *)
(***************************************************************************)
EXTENDS JobKeys, SequenceTheorems, FiniteSetTheorems, TLAPS

----------------------------------------------------------------------------
(* The functions, command by command.                                      *)

CommandName == {"HSET", "HINCRBY", "INCR", "RPUSH", "SADD", "EXPIRE", "DEL",
                "FLUSHDB", "SCAN", "HGETALL", "HLEN"}

ACommand == {Cmd(name, key) : name \in CommandName, key \in Key}

\* Two sequences in a row.
LEMMA Joined ==
    ASSUME NEW s \in Seq(ACommand), NEW t \in Seq(ACommand)
    PROVE  /\ s \o t \in Seq(ACommand)
           /\ Len(s \o t) = Len(s) + Len(t)
           /\ \A i \in 1..Len(s) : (s \o t)[i] = s[i]
           /\ \A i \in 1..Len(t) : (s \o t)[Len(s) + i] = t[i]
  BY ConcatProperties

\* A write and its EXPIRE.
LEMMA WriteIs ==
    ASSUME NEW name \in CommandName, NEW key \in Key
    PROVE  /\ Write(name, key) \in Seq(ACommand)
           /\ Len(Write(name, key)) = 2
           /\ Write(name, key)[1] = Cmd(name, key)
           /\ Write(name, key)[2] = Cmd("EXPIRE", key)
<1>1. Cmd(name, key) \in ACommand /\ Cmd("EXPIRE", key) \in ACommand
  BY DEF ACommand, CommandName
<1> QED
  BY <1>1 DEF Write

\* record_tile_result() and what follows it.
LEMMA RecordIs ==
    /\ Record \in Seq(ACommand)
    /\ Len(Record) = 9
    /\ Record[1] = Cmd("HSET", "tiles")
    /\ Record[2] = Cmd("EXPIRE", "tiles")
    /\ Record[3] = Cmd("RPUSH", "latencies")
    /\ Record[4] = Cmd("EXPIRE", "latencies")
    /\ Record[5] = Cmd("HINCRBY", "job")
    /\ Record[6] = Cmd("EXPIRE", "job")
    /\ Record[7] = Cmd("HLEN", "tiles")
    /\ Record[8] = Cmd("HGETALL", "job")
    /\ Record[9] = Cmd("HSET", "job")
<1> DEFINE one == Write("HSET", "tiles")
           two == Write("RPUSH", "latencies")
           three == Write("HINCRBY", "job")
           four == <<Cmd("HLEN", "tiles"), Cmd("HGETALL", "job"),
                     Cmd("HSET", "job")>>
<1>1. /\ one \in Seq(ACommand) /\ Len(one) = 2
      /\ one[1] = Cmd("HSET", "tiles") /\ one[2] = Cmd("EXPIRE", "tiles")
  BY WriteIs DEF CommandName, Key, JobScoped
<1>2. /\ two \in Seq(ACommand) /\ Len(two) = 2
      /\ two[1] = Cmd("RPUSH", "latencies")
      /\ two[2] = Cmd("EXPIRE", "latencies")
  BY WriteIs DEF CommandName, Key, JobScoped
<1>3. /\ three \in Seq(ACommand) /\ Len(three) = 2
      /\ three[1] = Cmd("HINCRBY", "job") /\ three[2] = Cmd("EXPIRE", "job")
  BY WriteIs DEF CommandName, Key, JobScoped
<1>4. /\ four \in Seq(ACommand) /\ Len(four) = 3
      /\ four[1] = Cmd("HLEN", "tiles")
      /\ four[2] = Cmd("HGETALL", "job")
      /\ four[3] = Cmd("HSET", "job")
  <2>1. /\ Cmd("HLEN", "tiles") \in ACommand
        /\ Cmd("HGETALL", "job") \in ACommand
        /\ Cmd("HSET", "job") \in ACommand
    BY DEF ACommand, CommandName, Key, JobScoped
  <2> QED
    BY <2>1
<1>5. Record = one \o two \o three \o four
  BY Zenon DEF Record
<1> HIDE DEF one, two, three, four
<1>6. /\ one \o two \in Seq(ACommand) /\ Len(one \o two) = 4
      /\ (one \o two)[1] = one[1]
      /\ (one \o two)[2] = one[2]
      /\ (one \o two)[3] = two[1]
      /\ (one \o two)[4] = two[2]
  <2>1. /\ one \o two \in Seq(ACommand)
        /\ Len(one \o two) = 2 + 2
        /\ \A i \in 1..2 : (one \o two)[i] = one[i]
        /\ \A i \in 1..2 : (one \o two)[2 + i] = two[i]
    <3>1. /\ one \o two \in Seq(ACommand)
          /\ Len(one \o two) = Len(one) + Len(two)
          /\ \A i \in 1..Len(one) : (one \o two)[i] = one[i]
          /\ \A i \in 1..Len(two) : (one \o two)[Len(one) + i] = two[i]
      BY <1>1, <1>2, Joined, Zenon
    <3> QED
      BY <3>1, <1>1, <1>2, Zenon
  <2>2. /\ 1 \in 1..2 /\ 2 \in 1..2
        /\ 2 + 1 = 3 /\ 2 + 2 = 4
    OBVIOUS
  <2> QED
    BY <2>1, <2>2, Zenon
<1>7. /\ one \o two \o three \in Seq(ACommand) /\ Len(one \o two \o three) = 6
      /\ (one \o two \o three)[1] = (one \o two)[1]
      /\ (one \o two \o three)[2] = (one \o two)[2]
      /\ (one \o two \o three)[3] = (one \o two)[3]
      /\ (one \o two \o three)[4] = (one \o two)[4]
      /\ (one \o two \o three)[5] = three[1]
      /\ (one \o two \o three)[6] = three[2]
  <2>1. /\ one \o two \o three \in Seq(ACommand)
        /\ Len(one \o two \o three) = 4 + 2
        /\ \A i \in 1..4 : (one \o two \o three)[i] = (one \o two)[i]
        /\ \A i \in 1..2 : (one \o two \o three)[4 + i] = three[i]
    <3>1. /\ one \o two \o three \in Seq(ACommand)
          /\ Len(one \o two \o three) = Len(one \o two) + Len(three)
          /\ \A i \in 1..Len(one \o two) :
                (one \o two \o three)[i] = (one \o two)[i]
          /\ \A i \in 1..Len(three) : (one \o two \o three)[Len(one \o two) + i]
                = three[i]
      BY <1>6, <1>3, Joined, Zenon
    <3> QED
      BY <3>1, <1>6, <1>3, Zenon
  <2>2. /\ 1 \in 1..4 /\ 2 \in 1..4 /\ 3 \in 1..4 /\ 4 \in 1..4
        /\ 1 \in 1..2 /\ 2 \in 1..2
        /\ 4 + 1 = 5 /\ 4 + 2 = 6
    OBVIOUS
  <2> QED
    BY <2>1, <2>2, Zenon
<1>8. /\ Record \in Seq(ACommand) /\ Len(Record) = 9
      /\ Record[1] = (one \o two \o three)[1]
      /\ Record[2] = (one \o two \o three)[2]
      /\ Record[3] = (one \o two \o three)[3]
      /\ Record[4] = (one \o two \o three)[4]
      /\ Record[5] = (one \o two \o three)[5]
      /\ Record[6] = (one \o two \o three)[6]
      /\ Record[7] = four[1]
      /\ Record[8] = four[2]
      /\ Record[9] = four[3]
  <2>1. /\ Record \in Seq(ACommand)
        /\ Len(Record) = 6 + 3
        /\ \A i \in 1..6 : Record[i] = (one \o two \o three)[i]
        /\ \A i \in 1..3 : Record[6 + i] = four[i]
    <3>1. /\ one \o two \o three \o four \in Seq(ACommand)
          /\ Len(one \o two \o three \o four)
                = Len(one \o two \o three) + Len(four)
          /\ \A i \in 1..Len(one \o two \o three) :
                (one \o two \o three \o four)[i] = (one \o two \o three)[i]
          /\ \A i \in 1..Len(four) :
                (one \o two \o three \o four)[Len(one \o two \o three) + i] = four[i]
      BY <1>7, <1>4, Joined, Zenon
    <3> QED
      BY <3>1, <1>7, <1>4, <1>5, Zenon
  <2>2. /\ 1 \in 1..6 /\ 2 \in 1..6 /\ 3 \in 1..6
        /\ 4 \in 1..6 /\ 5 \in 1..6 /\ 6 \in 1..6
        /\ 1 \in 1..3 /\ 2 \in 1..3 /\ 3 \in 1..3
        /\ 6 + 1 = 7 /\ 6 + 2 = 8 /\ 6 + 3 = 9
    OBVIOUS
  <2> QED
    BY <2>1, <2>2, Zenon
<1> QED
  BY <1>1, <1>2, <1>3, <1>4, <1>6, <1>7, <1>8, Zenon

\* The EXPIREs that are at most one command away.
Owing(p, i) ==
    {cmd.key : cmd \in {c \in {p[j] : j \in {i, i + 1} \cap DOMAIN p} :
                          c.name = "EXPIRE"}}

LEMMA OwingIs ==
    ASSUME NEW p \in Seq(ACommand), NEW i \in 1..Len(p), NEW n \in Nat, Len(p) = n
    PROVE  /\ i = n /\ p[i].name # "EXPIRE" => Owing(p, i) = {}
           /\ i = n /\ p[i].name = "EXPIRE" => Owing(p, i) = {p[i].key}
           /\ i < n /\ p[i].name # "EXPIRE" /\ p[i + 1].name # "EXPIRE" =>
                 Owing(p, i) = {}
           /\ i < n /\ p[i].name = "EXPIRE" /\ p[i + 1].name # "EXPIRE" =>
                 Owing(p, i) = {p[i].key}
           /\ i < n /\ p[i].name # "EXPIRE" /\ p[i + 1].name = "EXPIRE" =>
                 Owing(p, i) = {p[i + 1].key}
<1>1. DOMAIN p = 1..n
  OBVIOUS
<1>2. CASE i = n
  <2>1. {i, i + 1} \cap DOMAIN p = {i}
    BY <1>1, <1>2
  <2>2. Owing(p, i) = {cmd.key : cmd \in {c \in {p[i]} : c.name = "EXPIRE"}}
    BY <2>1 DEF Owing
  <2> QED
    BY <1>2, <2>2
<1>3. CASE i < n
  <2>1. {i, i + 1} \cap DOMAIN p = {i, i + 1}
    BY <1>1, <1>3
  <2>2. Owing(p, i) =
           {cmd.key : cmd \in {c \in {p[i], p[i + 1]} : c.name = "EXPIRE"}}
    BY <2>1 DEF Owing
  <2> QED
    BY <1>3, <2>2
<1> QED
  BY <1>2, <1>3

\* A line of a function: its command and the keys that it owes an EXPIRE.
Line(c, i, kind, n, name, key, owed) ==
    /\ c.kind = kind
    /\ i = n
    /\ Program(c)[i] = Cmd(name, key)
    /\ Owing(Program(c), i) = owed

\* What is written at a single key, and given its TTL.
LEMMA WriteLines ==
    ASSUME NEW c \in Call, NEW i \in 1..Len(Program(c)), NEW name \in CommandName,
           NEW key \in Key, name # "EXPIRE", Program(c) = Write(name, key)
    PROVE  /\ Len(Program(c)) = 2
           /\ \/ Line(c, i, c.kind, 1, name, key, {key})
              \/ Line(c, i, c.kind, 2, "EXPIRE", key, {key})
<1>1. /\ Program(c) \in Seq(ACommand) /\ Len(Program(c)) = 2
      /\ Program(c)[1] = Cmd(name, key) /\ Program(c)[2] = Cmd("EXPIRE", key)
  BY WriteIs
<1>2. i = 1 \/ i = 2
  BY <1>1
<1>3. CASE i = 1
  <2>1. /\ i < 2
        /\ Program(c)[i] = Cmd(name, key)
        /\ Program(c)[i + 1] = Cmd("EXPIRE", key)
    BY <1>1, <1>3
  <2>2. /\ Program(c)[i].name # "EXPIRE"
        /\ Program(c)[i + 1].name = "EXPIRE" /\ Program(c)[i + 1].key = key
    BY <2>1 DEF Cmd
  <2>3. Owing(Program(c), i) = {key}
    BY <1>1, <2>1, <2>2, OwingIs
  <2> QED
    BY <1>1, <1>3, <2>3 DEF Line
<1>4. CASE i = 2
  <2>1. Program(c)[i].name = "EXPIRE" /\ Program(c)[i].key = key
    BY <1>1, <1>4 DEF Cmd
  <2>2. Owing(Program(c), i) = {key}
    BY <1>1, <1>4, <2>1, OwingIs
  <2> QED
    BY <1>1, <1>4, <2>2 DEF Line
<1> QED
  BY <1>1, <1>2, <1>3, <1>4

\* What no EXPIRE follows.
LEMMA BareLines ==
    ASSUME NEW c \in Call, NEW i \in 1..Len(Program(c)),
           Program(c) \in Seq(ACommand),
           \A j \in 1..Len(Program(c)) : Program(c)[j].name # "EXPIRE"
    PROVE  Owing(Program(c), i) = {}
<1>1. Len(Program(c)) \in Nat
  OBVIOUS
<1>2. CASE i = Len(Program(c))
  BY <1>1, <1>2, OwingIs
<1>3. CASE i < Len(Program(c))
  <2>1. i + 1 \in 1..Len(Program(c))
    BY <1>1, <1>3
  <2> QED
    BY <1>1, <1>3, <2>1, OwingIs
<1> QED
  BY <1>1, <1>2, <1>3

\* Every line of every function.
WriteLine(c, i) ==
    \/ \E kind \in {"create", "status"} :
          \/ Line(c, i, kind, 1, "HSET", "job", {"job"})
          \/ Line(c, i, kind, 2, "EXPIRE", "job", {"job"})
    \/ Line(c, i, "attempt", 1, "INCR", c.tile, {c.tile})
    \/ Line(c, i, "attempt", 2, "EXPIRE", c.tile, {c.tile})
    \/ Line(c, i, "abandon", 1, "SADD", "abandoned", {"abandoned"})
    \/ Line(c, i, "abandon", 2, "EXPIRE", "abandoned", {"abandoned"})

RecordLine(c, i) ==
    \/ Line(c, i, "record", 1, "HSET", "tiles", {"tiles"})
    \/ Line(c, i, "record", 2, "EXPIRE", "tiles", {"tiles"})
    \/ Line(c, i, "record", 3, "RPUSH", "latencies", {"latencies"})
    \/ Line(c, i, "record", 4, "EXPIRE", "latencies", {"latencies"})
    \/ Line(c, i, "record", 5, "HINCRBY", "job", {"job"})
    \/ Line(c, i, "record", 6, "EXPIRE", "job", {"job"})
    \/ Line(c, i, "record", 7, "HLEN", "tiles", {})
    \/ Line(c, i, "record", 8, "HGETALL", "job", {})
    \/ Line(c, i, "record", 9, "HSET", "job", {})

BareLine(c, i) ==
    \/ Line(c, i, "failed", 1, "HINCRBY", "job", {})
    \/ Line(c, i, "delete", 1, "DEL", "tiles", {})
    \/ Line(c, i, "delete", 2, "SCAN", "job", {})
    \/ Line(c, i, "delete", 3, "DEL", "job", {})
    \/ Line(c, i, "clear", 1, "SCAN", "job", {})
    \/ Line(c, i, "clear", 2, "HGETALL", "job", {})
    \/ Line(c, i, "clear", 3, "DEL", "job", {})
    \/ Line(c, i, "cleanup", 1, "SCAN", "stray", {})
    \/ Line(c, i, "cleanup", 2, "DEL", "stray", {})

NuclearLine(c, i) ==
    \/ Line(c, i, "nuclear", 1, "SCAN", "job", {})
    \/ Line(c, i, "nuclear", 2, "HGETALL", "job", {})
    \/ Line(c, i, "nuclear", 3, "FLUSHDB", "job", {})
    \/ Line(c, i, "nuclear", 4, "HSET", "job", {"job"})
    \/ Line(c, i, "nuclear", 5, "EXPIRE", "job", {"job"})

Length(c) ==
    CASE c.kind = "failed" -> 1
      [] c.kind \in {"create", "status", "attempt", "abandon", "cleanup"} -> 2
      [] c.kind \in {"delete", "clear"} -> 3
      [] c.kind = "nuclear" -> 5
      [] c.kind = "record" -> 9

\* Functions that write one key.
LEMMA Writes ==
    ASSUME NEW c \in Call, NEW i \in 1..Len(Program(c)),
           c.kind \in {"create", "status", "attempt", "abandon"}
    PROVE  WriteLine(c, i) /\ Len(Program(c)) = 2
<1>1. CASE c.kind \in {"create", "status"}
  <2>1. Program(c) = Write("HSET", "job")
    BY <1>1 DEF Program, CreateJob, SetFields
  <2>2. "HSET" \in CommandName /\ "job" \in Key
    BY DEF CommandName, Key, JobScoped
  <2> QED
    BY <1>1, <2>1, <2>2, WriteLines DEF WriteLine
<1>2. CASE c.kind = "attempt"
  <2>1. Program(c) = Write("INCR", c.tile)
    BY <1>2 DEF Program, IncrTileAttempts
  <2>2. "INCR" \in CommandName /\ c.tile \in Key
    BY DEF CommandName, Key, JobScoped, Call
  <2> QED
    BY <1>2, <2>1, <2>2, WriteLines DEF WriteLine
<1>3. CASE c.kind = "abandon"
  <2>1. Program(c) = Write("SADD", "abandoned")
    BY <1>3 DEF Program, AddAbandonedTile
  <2>2. "SADD" \in CommandName /\ "abandoned" \in Key
    BY DEF CommandName, Key, JobScoped
  <2> QED
    BY <1>3, <2>1, <2>2, WriteLines DEF WriteLine
<1> QED
  BY <1>1, <1>2, <1>3

\* Functions without an EXPIRE.
LEMMA Bares ==
    ASSUME NEW c \in Call, NEW i \in 1..Len(Program(c)),
           c.kind \in {"failed", "delete", "clear", "cleanup"}
    PROVE  /\ BareLine(c, i)
           /\ c.kind = "failed" => Len(Program(c)) = 1
           /\ c.kind = "cleanup" => Len(Program(c)) = 2
           /\ c.kind \in {"delete", "clear"} => Len(Program(c)) = 3
<1>1. \A name \in CommandName, key \in {"job", "tiles", "stray"} :
          Cmd(name, key) \in ACommand /\ Cmd(name, key).name = name
  BY DEF ACommand, Cmd, Key, JobScoped
<1>2. {"HINCRBY", "DEL", "SCAN", "HGETALL"} \subseteq CommandName
  BY DEF CommandName
<1>3. CASE c.kind = "failed"
  <2>1. /\ Program(c) = <<Cmd("HINCRBY", "job")>>
        /\ Cmd("HINCRBY", "job") \in ACommand
        /\ Cmd("HINCRBY", "job").name # "EXPIRE"
    BY <1>1, <1>2, <1>3 DEF Program, RecordPublishFailure
  <2>2. /\ Program(c) \in Seq(ACommand) /\ Len(Program(c)) = 1 /\ i = 1
        /\ Program(c)[1] = Cmd("HINCRBY", "job")
    BY <2>1
  <2>3. Owing(Program(c), i) = {}
    <3>1. \A j \in 1..1 : Program(c)[j].name # "EXPIRE"
      BY <2>1, <2>2
    <3> QED
      BY <2>2, <3>1, BareLines
  <2> QED
    BY <1>3, <2>2, <2>3 DEF BareLine, Line
<1>4. CASE c.kind = "delete"
  <2>1. /\ Program(c) =
              <<Cmd("DEL", "tiles"), Cmd("SCAN", "job"), Cmd("DEL", "job")>>
        /\ {Cmd("DEL", "tiles"), Cmd("SCAN", "job"), Cmd("DEL", "job")}
              \subseteq ACommand
        /\ Cmd("DEL", "tiles").name # "EXPIRE"
        /\ Cmd("SCAN", "job").name # "EXPIRE"
        /\ Cmd("DEL", "job").name # "EXPIRE"
    BY <1>1, <1>2, <1>4 DEF Program, DeleteJobTileState
  <2>2. /\ Program(c) \in Seq(ACommand) /\ Len(Program(c)) = 3
        /\ Program(c)[1] = Cmd("DEL", "tiles")
        /\ Program(c)[2] = Cmd("SCAN", "job")
        /\ Program(c)[3] = Cmd("DEL", "job")
    BY <2>1
  <2>3. \A j \in 1..3 : Program(c)[j].name # "EXPIRE"
    BY <2>1, <2>2
  <2>4. Owing(Program(c), i) = {}
    BY <2>2, <2>3, BareLines
  <2>5. i = 1 \/ i = 2 \/ i = 3
    BY <2>2
  <2> QED
    BY <1>4, <2>2, <2>4, <2>5 DEF BareLine, Line
<1>5. CASE c.kind = "clear"
  <2>1. /\ Program(c) =
              <<Cmd("SCAN", "job"), Cmd("HGETALL", "job"), Cmd("DEL", "job")>>
        /\ {Cmd("SCAN", "job"), Cmd("HGETALL", "job"), Cmd("DEL", "job")}
              \subseteq ACommand
        /\ Cmd("SCAN", "job").name # "EXPIRE"
        /\ Cmd("HGETALL", "job").name # "EXPIRE"
        /\ Cmd("DEL", "job").name # "EXPIRE"
    BY <1>1, <1>2, <1>5 DEF Program, ClearOldJobs
  <2>2. /\ Program(c) \in Seq(ACommand) /\ Len(Program(c)) = 3
        /\ Program(c)[1] = Cmd("SCAN", "job")
        /\ Program(c)[2] = Cmd("HGETALL", "job")
        /\ Program(c)[3] = Cmd("DEL", "job")
    BY <2>1
  <2>3. \A j \in 1..3 : Program(c)[j].name # "EXPIRE"
    BY <2>1, <2>2
  <2>4. Owing(Program(c), i) = {}
    BY <2>2, <2>3, BareLines
  <2>5. i = 1 \/ i = 2 \/ i = 3
    BY <2>2
  <2> QED
    BY <1>5, <2>2, <2>4, <2>5 DEF BareLine, Line
<1>6. CASE c.kind = "cleanup"
  <2>1. /\ Program(c) = <<Cmd("SCAN", "stray"), Cmd("DEL", "stray")>>
        /\ {Cmd("SCAN", "stray"), Cmd("DEL", "stray")} \subseteq ACommand
        /\ Cmd("SCAN", "stray").name # "EXPIRE"
        /\ Cmd("DEL", "stray").name # "EXPIRE"
    BY <1>1, <1>2, <1>6 DEF Program, CleanupOrphanedKeys
  <2>2. /\ Program(c) \in Seq(ACommand) /\ Len(Program(c)) = 2
        /\ Program(c)[1] = Cmd("SCAN", "stray")
        /\ Program(c)[2] = Cmd("DEL", "stray")
    BY <2>1
  <2>3. \A j \in 1..2 : Program(c)[j].name # "EXPIRE"
    BY <2>1, <2>2
  <2>4. Owing(Program(c), i) = {}
    BY <2>2, <2>3, BareLines
  <2>5. i = 1 \/ i = 2
    BY <2>2
  <2> QED
    BY <1>6, <2>2, <2>4, <2>5 DEF BareLine, Line
<1> QED
  BY <1>3, <1>4, <1>5, <1>6

\* nuclear_cleanup()
LEMMA NuclearIs ==
    /\ Nuclear \in Seq(ACommand)
    /\ Len(Nuclear) = 5
    /\ Nuclear[1] = Cmd("SCAN", "job")
    /\ Nuclear[2] = Cmd("HGETALL", "job")
    /\ Nuclear[3] = Cmd("FLUSHDB", "job")
    /\ Nuclear[4] = Cmd("HSET", "job")
    /\ Nuclear[5] = Cmd("EXPIRE", "job")
<1> DEFINE one == <<Cmd("SCAN", "job"), Cmd("HGETALL", "job"),
                    Cmd("FLUSHDB", "job")>>
<1>1. Nuclear = one \o Write("HSET", "job")
  BY Zenon DEF Nuclear
<1>2. /\ one \in Seq(ACommand) /\ Len(one) = 3
      /\ one[1] = Cmd("SCAN", "job") /\ one[2] = Cmd("HGETALL", "job")
      /\ one[3] = Cmd("FLUSHDB", "job")
  <2>1. /\ Cmd("SCAN", "job") \in ACommand
        /\ Cmd("HGETALL", "job") \in ACommand
        /\ Cmd("FLUSHDB", "job") \in ACommand
    BY DEF ACommand, CommandName, Key, JobScoped
  <2> QED
    BY <2>1
<1> HIDE DEF one
<1>3. /\ Write("HSET", "job") \in Seq(ACommand)
      /\ Len(Write("HSET", "job")) = 2
      /\ Write("HSET", "job")[1] = Cmd("HSET", "job")
      /\ Write("HSET", "job")[2] = Cmd("EXPIRE", "job")
  BY WriteIs DEF CommandName, Key, JobScoped
<1>4. /\ Nuclear \in Seq(ACommand)
      /\ Len(Nuclear) = 3 + 2
      /\ \A i \in 1..3 : Nuclear[i] = one[i]
      /\ \A i \in 1..2 : Nuclear[3 + i] = Write("HSET", "job")[i]
  <2> DEFINE two == Write("HSET", "job")
  <2>1. /\ one \o two \in Seq(ACommand)
        /\ Len(one \o two) = Len(one) + Len(two)
        /\ \A i \in 1..Len(one) : (one \o two)[i] = one[i]
        /\ \A i \in 1..Len(two) : (one \o two)[Len(one) + i] = two[i]
    BY <1>2, <1>3, Joined, Zenon
  <2> QED
    BY <1>1, <1>2, <1>3, <2>1, Zenon
<1>5. /\ 1 \in 1..3 /\ 2 \in 1..3 /\ 3 \in 1..3 /\ 1 \in 1..2 /\ 2 \in 1..2
      /\ 3 + 1 = 4 /\ 3 + 2 = 5
  OBVIOUS
<1> QED
  BY <1>2, <1>3, <1>4, <1>5, Zenon

\* The restore of nuclear_cleanup() has its EXPIRE.
LEMMA Nuclears ==
    ASSUME NEW c \in Call, NEW i \in 1..Len(Program(c)), c.kind = "nuclear"
    PROVE  NuclearLine(c, i) /\ Len(Program(c)) = 5
<1>1. Program(c) = Nuclear
  BY DEF Program
<1> DEFINE p == Program(c)
<1>2. /\ p \in Seq(ACommand) /\ Len(p) = 5
      /\ p[1] = Cmd("SCAN", "job") /\ p[2] = Cmd("HGETALL", "job")
      /\ p[3] = Cmd("FLUSHDB", "job")
      /\ p[4] = Cmd("HSET", "job") /\ p[5] = Cmd("EXPIRE", "job")
  BY <1>1, NuclearIs
<1> HIDE DEF p
<1>3. /\ p[1].name # "EXPIRE" /\ p[2].name # "EXPIRE" /\ p[3].name # "EXPIRE"
      /\ p[4].name # "EXPIRE" /\ p[5].name = "EXPIRE" /\ p[5].key = "job"
  BY <1>2 DEF Cmd
<1>4. /\ 1 \in 1..Len(p) /\ 2 \in 1..Len(p) /\ 3 \in 1..Len(p)
      /\ 4 \in 1..Len(p) /\ 5 \in 1..Len(p)
      /\ 1 + 1 = 2 /\ 2 + 1 = 3 /\ 3 + 1 = 4 /\ 4 + 1 = 5 /\ 5 \in Nat
      /\ 1 < 5 /\ 2 < 5 /\ 3 < 5 /\ 4 < 5
  BY <1>2
<1>5. /\ Owing(p, 1) = {} /\ Owing(p, 2) = {} /\ Owing(p, 3) = {}
      /\ Owing(p, 4) = {"job"} /\ Owing(p, 5) = {"job"}
  <2>1. ASSUME NEW j \in {1, 2, 3}
        PROVE  Owing(p, j) = {}
    <3>1. /\ j \in 1..Len(p) /\ j < 5
          /\ p[j].name # "EXPIRE" /\ p[j + 1].name # "EXPIRE"
      BY <1>2, <1>3, <1>4
    <3> QED
      BY <1>2, <1>4, <3>1, OwingIs
  <2>2. Owing(p, 4) = {"job"}
    <3>1. p[4 + 1].name = "EXPIRE" /\ p[4 + 1].key = "job"
      BY <1>3, <1>4
    <3> QED
      BY <1>2, <1>3, <1>4, <3>1, OwingIs
  <2>3. Owing(p, 5) = {"job"}
    BY <1>2, <1>3, <1>4, OwingIs
  <2> QED
    BY <2>1, <2>2, <2>3
<1>6. i = 1 \/ i = 2 \/ i = 3 \/ i = 4 \/ i = 5
  BY <1>2 DEF p
<1> QED
  BY <1>2, <1>5, <1>6, Zenon DEF NuclearLine, Line, p

\* The listener's function: three writes with an EXPIRE, two reads, and a write
\* without.
LEMMA Records ==
    ASSUME NEW c \in Call, NEW i \in 1..Len(Program(c)), c.kind = "record"
    PROVE  RecordLine(c, i) /\ Len(Program(c)) = 9
<1>1. Program(c) = Record
  BY DEF Program
<1> DEFINE p == Program(c)
<1>2. /\ p \in Seq(ACommand) /\ Len(p) = 9
      /\ p[1] = Cmd("HSET", "tiles") /\ p[2] = Cmd("EXPIRE", "tiles")
      /\ p[3] = Cmd("RPUSH", "latencies") /\ p[4] = Cmd("EXPIRE", "latencies")
      /\ p[5] = Cmd("HINCRBY", "job") /\ p[6] = Cmd("EXPIRE", "job")
      /\ p[7] = Cmd("HLEN", "tiles") /\ p[8] = Cmd("HGETALL", "job")
      /\ p[9] = Cmd("HSET", "job")
  BY <1>1, RecordIs
<1> HIDE DEF p
<1>3. /\ \A j \in {1, 3, 5, 7, 8, 9} : p[j].name # "EXPIRE"
      /\ p[2].name = "EXPIRE" /\ p[2].key = "tiles"
      /\ p[4].name = "EXPIRE" /\ p[4].key = "latencies"
      /\ p[6].name = "EXPIRE" /\ p[6].key = "job"
  BY <1>2 DEF Cmd
<1>4. /\ \A j \in 1..9 : j \in 1..Len(p)
      /\ 1 + 1 = 2 /\ 2 + 1 = 3 /\ 3 + 1 = 4 /\ 4 + 1 = 5 /\ 5 + 1 = 6
      /\ 6 + 1 = 7 /\ 7 + 1 = 8 /\ 8 + 1 = 9 /\ 9 \in Nat
  BY <1>2
<1>5. ASSUME NEW j \in {1, 3, 5}
      PROVE  Owing(p, j) = {p[j + 1].key}
  <2>1. /\ j \in 1..Len(p) /\ j < 9
        /\ p[j].name # "EXPIRE" /\ p[j + 1].name = "EXPIRE"
    BY <1>3, <1>4
  <2> QED
    BY <1>2, <1>4, <2>1, OwingIs
<1>6. ASSUME NEW j \in {2, 4, 6}
      PROVE  Owing(p, j) = {p[j].key}
  <2>1. /\ j \in 1..Len(p) /\ j < 9
        /\ p[j].name = "EXPIRE" /\ p[j + 1].name # "EXPIRE"
    BY <1>3, <1>4
  <2> QED
    BY <1>2, <1>4, <2>1, OwingIs
<1>7. ASSUME NEW j \in {7, 8}
      PROVE  Owing(p, j) = {}
  <2>1. /\ j \in 1..Len(p) /\ j < 9
        /\ p[j].name # "EXPIRE" /\ p[j + 1].name # "EXPIRE"
    BY <1>3, <1>4
  <2> QED
    BY <1>2, <1>4, <2>1, OwingIs
<1>8. Owing(p, 9) = {}
  <2>1. 9 \in 1..Len(p) /\ p[9].name # "EXPIRE"
    BY <1>3, <1>4
  <2> QED
    BY <1>2, <1>4, <2>1, OwingIs
<1>9. /\ Owing(p, 1) = {"tiles"} /\ Owing(p, 2) = {"tiles"}
      /\ Owing(p, 3) = {"latencies"} /\ Owing(p, 4) = {"latencies"}
      /\ Owing(p, 5) = {"job"} /\ Owing(p, 6) = {"job"}
      /\ Owing(p, 7) = {} /\ Owing(p, 8) = {}
  BY <1>3, <1>4, <1>5, <1>6, <1>7
<1>10. \/ i = 1 \/ i = 2 \/ i = 3 \/ i = 4 \/ i = 5
       \/ i = 6 \/ i = 7 \/ i = 8 \/ i = 9
  BY <1>2 DEF p
<1> QED
  BY <1>2, <1>8, <1>9, <1>10, Zenon DEF RecordLine, Line, p

\* All of them.
LEMMA Lines ==
    ASSUME NEW c \in Call, NEW i \in 1..Len(Program(c))
    PROVE  /\ \/ WriteLine(c, i) \/ RecordLine(c, i) \/ BareLine(c, i)
              \/ NuclearLine(c, i)
           /\ Len(Program(c)) = Length(c)
           /\ c.kind \in Kind
<1>1. c.kind \in Kind
  BY DEF Call
<1> QED
  BY <1>1, Writes, Records, Bares, Nuclears DEF Kind, Length

----------------------------------------------------------------------------
(* Types.                                                                  *)

\* An actor between two functions, or at a command of the one it is in.
Idle(a) == step[a] = 1 /\ got[a] = Nothing
Busy(a) == call[a] \in Call /\ step[a] \in 1..Len(Program(call[a]))
Placed(a) == IF call[a] = None THEN Idle(a) ELSE Busy(a)

Answers == [keys : SUBSET Key, hash : Hash, new : BOOLEAN, length : Nat]

\* Every function has its caller, and the hash that nuclear_cleanup() restores
\* was there.
CallerInv ==
    \A a \in Actor : call[a] # None =>
        /\ call[a].kind \in {"create", "failed"} => a = "upload"
        /\ call[a].kind = "record" <=> a = "listener"
        /\ call[a].kind \in {"clear", "cleanup", "nuclear"} => a = "admin"
        /\ call[a].kind = "nuclear" /\ step[a] >= 4 => got[a].hash.exists

TInv ==
    /\ TypeOK
    /\ got \in [Actor -> Answers]
    /\ \A a \in Actor : Placed(a)
    /\ CallerInv

RedisOp(a) == HSet(a) \/ Add(a) \/ Expire(a) \/ Delete(a) \/ Read(a)

\* The conjuncts of TypeOK about the keys.
RedisTypeOK ==
    /\ job \in Hash
    /\ ~job.exists => job = NoHash
    /\ tiles \in SUBSET Tile
    /\ latencies \in Nat
    /\ abandoned \in SUBSET Tile
    /\ attempts \in [Tile -> Nat]
    /\ others \in SUBSET {"leader", "stray"}
    /\ ttl \subseteq LiveKeys
    /\ disturbed \in SUBSET {"expired", "deleted"}

\* The command an actor is at, and the EXPIREs it owes.
LEMMA Commands ==
    ASSUME TInv, NEW a \in Actor, call[a] # None
    PROVE  /\ call[a] \in Call /\ step[a] \in 1..Len(Program(call[a]))
           /\ Owed(a) = Owing(Program(call[a]), step[a])
           /\ Current(a) = Program(call[a])[step[a]]
           /\ \/ WriteLine(call[a], step[a]) \/ RecordLine(call[a], step[a])
              \/ BareLine(call[a], step[a]) \/ NuclearLine(call[a], step[a])
           /\ Len(Program(call[a])) = Length(call[a])
<1>1. Busy(a)
  BY DEF TInv, Placed
<1> QED
  BY <1>1, Lines DEF Busy, Owed, Owing, Current

LEMMA CurrentIs ==
    ASSUME TInv, NEW a \in Actor, call[a] # None
    PROVE  /\ Current(a).name = "HSET" =>
                 \/ /\ Current(a).key = "tiles"
                    /\ call[a].kind = "record" /\ step[a] = 1
                 \/ /\ Current(a).key = "job"
                    /\ \/ call[a].kind \in {"create", "status"} /\ step[a] = 1
                       \/ call[a].kind = "record" /\ step[a] = 9
                       \/ call[a].kind = "nuclear" /\ step[a] = 4
           /\ Counting(Current(a).name) =>
                 \/ /\ Current(a).key = "job"
                    /\ \/ call[a].kind = "failed"
                       \/ call[a].kind = "record" /\ step[a] = 5
                 \/ /\ Current(a).key = "latencies"
                    /\ call[a].kind = "record" /\ step[a] = 3
                 \/ Current(a).key = "abandoned" /\ call[a].kind = "abandon"
                 \/ /\ Current(a) = Cmd("INCR", call[a].tile)
                    /\ call[a].tile \in Tile
                    /\ call[a].kind = "attempt"
           /\ Current(a).name = "INCR" => call[a].kind = "attempt"
           /\ Current(a).name = "EXPIRE" => Owed(a) = {Current(a).key}
           /\ Current(a).name = "HSET" \/ Counting(Current(a).name) =>
                 \/ Owed(a) = {Current(a).key}
                 \/ Owed(a) = {} /\ Current(a).key = "job"
<1>1. call[a].tile \in Tile
  BY Commands DEF Call
<1>2. CASE WriteLine(call[a], step[a])
  BY <1>1, <1>2, Commands DEF WriteLine, Line, Cmd, Counting
<1>3. CASE RecordLine(call[a], step[a])
  BY <1>1, <1>3, Commands DEF RecordLine, Line, Cmd, Counting
<1>4. CASE BareLine(call[a], step[a])
  BY <1>1, <1>4, Commands DEF BareLine, Line, Cmd, Counting
<1>5. CASE NuclearLine(call[a], step[a])
  BY <1>1, <1>5, Commands DEF NuclearLine, Line, Cmd, Counting
<1> QED
  BY <1>2, <1>3, <1>4, <1>5, Commands

\* DEL and FLUSHDB, and a TTL that passes.
LEMMA RemoveEffect ==
    ASSUME TInv, NEW keys, NEW how \in {"expired", "deleted"}, Remove(keys, how)
    PROVE  /\ RedisTypeOK'
           /\ disturbed \subseteq disturbed'
           /\ \A k \in JobScoped : Live(k)' => Live(k) /\ k \notin keys
           /\ ttl' = ttl \ keys
           /\ disturbed' = {} =>
                 job' = job /\ tiles' = tiles /\ attempts' = attempts
<1>1. RedisTypeOK
  BY DEF TInv, TypeOK, RedisTypeOK
<1>2. /\ job' \in Hash
      /\ ~job'.exists => job' = NoHash
      /\ tiles' \in SUBSET Tile
      /\ latencies' \in Nat
      /\ abandoned' \in SUBSET Tile
      /\ attempts' \in [Tile -> Nat]
      /\ others' \in SUBSET {"leader", "stray"}
      /\ disturbed' \in SUBSET {"expired", "deleted"}
  BY <1>1 DEF RedisTypeOK, Remove, NoHash, Hash
<1>3. ttl' \subseteq LiveKeys'
  <2> SUFFICES ASSUME NEW k \in ttl, k \notin keys
               PROVE  Live(k)'
    BY <1>1 DEF Remove, RedisTypeOK, LiveKeys
  <2>1. k \in Key /\ Live(k)
    BY <1>1 DEF RedisTypeOK, LiveKeys
  <2>2. CASE k \in {"job", "tiles", "latencies", "abandoned"}
    BY <2>1, <2>2 DEF Remove, Live
  <2>3. CASE k \in Tile
    BY <2>1, <2>3, <1>1, JobKeysAssumption DEF Remove, Live
  <2>4. CASE k \in {"leader", "stray"}
    BY <2>1, <2>4, JobKeysAssumption DEF Remove, Live
  <2> QED
    BY <2>1, <2>2, <2>3, <2>4 DEF Key, JobScoped
<1>4. ASSUME NEW k \in JobScoped, Live(k)'
      PROVE  Live(k) /\ k \notin keys
  <2>1. CASE k \in {"job", "tiles", "latencies", "abandoned"}
    BY <1>4, <2>1 DEF Remove, Live, NoHash
  <2>2. CASE k \in Tile
    BY <1>4, <2>2, <1>1, JobKeysAssumption DEF Remove, Live
  <2> QED
    BY <2>1, <2>2 DEF JobScoped
<1>5. disturbed \subseteq disturbed' /\ ttl' = ttl \ keys
  BY DEF Remove
<1>6. ASSUME disturbed' = {}
      PROVE  job' = job /\ tiles' = tiles /\ attempts' = attempts
  <2>1. \A k \in JobScoped : k \in keys => k \notin LiveKeys
    BY <1>6 DEF Remove
  <2>2. \A k \in JobScoped : k \in keys => ~Live(k)
    BY <2>1 DEF LiveKeys, Key
  <2>3. job' = job
    <3>1. "job" \in keys => ~job.exists
      <4>1. "job" \in JobScoped /\ (job.exists => Live("job"))
        BY JobKeysAssumption DEF Live, JobScoped
      <4> QED
        BY <2>2, <4>1
    <3> QED
      BY <1>1, <3>1 DEF Remove, RedisTypeOK
  <2>4. tiles' = tiles
    <3>1. "tiles" \in keys => tiles = {}
      <4>1. "tiles" \in JobScoped /\ (tiles # {} => Live("tiles"))
        BY JobKeysAssumption DEF Live, JobScoped
      <4> QED
        BY <2>2, <4>1
    <3> QED
      BY <3>1 DEF Remove
  <2>5. ASSUME NEW t \in Tile
        PROVE  attempts'[t] = attempts[t]
    <3>1. t \in keys => ~(attempts[t] > 0)
      BY <2>2, JobKeysAssumption DEF Live, JobScoped
    <3>2. attempts[t] \in Nat /\ attempts'[t] = IF t \in keys THEN 0 ELSE attempts[t]
      BY <1>1 DEF Remove, RedisTypeOK
    <3> QED
      BY <3>1, <3>2
  <2>6. attempts' = attempts
    BY <1>1, <1>2, <2>5 DEF RedisTypeOK
  <2> QED
    BY <2>3, <2>4, <2>6
<1> QED
  BY <1>2, <1>3, <1>4, <1>5, <1>6 DEF RedisTypeOK

\* What every command does, as far as the keys and their TTLs go.
Effect(a) ==
    /\ RedisTypeOK'
    /\ disturbed \subseteq disturbed'
    /\ \A k \in JobScoped : Live(k)' /\ ~Live(k) =>
          \/ Owed(a) = {k} /\ Current(a).key = k /\ Current(a).name # "EXPIRE"
          \/ k = "job" /\ Owed(a) = {}
    /\ \A k \in JobScoped \cap ttl : Live(k)' => k \in ttl'
    /\ Current(a).name = "EXPIRE" =>
          \A k \in JobScoped : Live(k)' /\ k = Current(a).key => k \in ttl'
    /\ disturbed' = {} => \A t \in Tile : attempts'[t] >= attempts[t]

\* What is done to the hash of the job.
LEMMA HashIs ==
    ASSUME NEW h \in Hash
    PROVE  /\ h.exists \in BOOLEAN /\ h.open \in BOOLEAN /\ h.count \in Nat
           /\ [h EXCEPT !.exists = TRUE] \in Hash
           /\ [h EXCEPT !.exists = TRUE].exists
           /\ [h EXCEPT !.exists = TRUE].count = h.count
           /\ [h EXCEPT !.exists = TRUE, !.count = @ + 1] \in Hash
           /\ [h EXCEPT !.exists = TRUE, !.count = @ + 1].exists
           /\ [h EXCEPT !.exists = TRUE, !.count = @ + 1].count = h.count + 1
           /\ \A open \in BOOLEAN :
                 /\ [h EXCEPT !.exists = TRUE, !.open = open] \in Hash
                 /\ [h EXCEPT !.exists = TRUE, !.open = open].exists
                 /\ [h EXCEPT !.exists = TRUE, !.open = open].count = h.count
           /\ NewHash \in Hash /\ NewHash.exists /\ NewHash.count = 0
           /\ NoHash \in Hash /\ ~NoHash.exists /\ NoHash.count = 0
<1>1. h.exists \in BOOLEAN /\ h.open \in BOOLEAN /\ h.count \in Nat
  BY DEF Hash
<1>2. /\ [h EXCEPT !.exists = TRUE] \in Hash
      /\ [h EXCEPT !.exists = TRUE].exists
      /\ [h EXCEPT !.exists = TRUE].count = h.count
  BY DEF Hash
<1>3. [h EXCEPT !.exists = TRUE, !.count = @ + 1] \in Hash
  <2>1. \A n \in Nat : [h EXCEPT !.exists = TRUE, !.count = n] \in Hash
    BY DEF Hash
  <2>2. [h EXCEPT !.exists = TRUE, !.count = @ + 1] =
           [h EXCEPT !.exists = TRUE, !.count = h.count + 1]
    BY DEF Hash
  <2>3. h.count + 1 \in Nat
    BY <1>1
  <2> QED
    BY <2>1, <2>2, <2>3
<1>4. /\ [h EXCEPT !.exists = TRUE, !.count = @ + 1].exists
      /\ [h EXCEPT !.exists = TRUE, !.count = @ + 1].count = h.count + 1
  BY DEF Hash
<1>5. ASSUME NEW open \in BOOLEAN
      PROVE  /\ [h EXCEPT !.exists = TRUE, !.open = open] \in Hash
             /\ [h EXCEPT !.exists = TRUE, !.open = open].exists
             /\ [h EXCEPT !.exists = TRUE, !.open = open].count = h.count
  BY DEF Hash
<1>6. /\ NewHash \in Hash /\ NewHash.exists /\ NewHash.count = 0
      /\ NoHash \in Hash /\ ~NoHash.exists /\ NoHash.count = 0
  BY DEF Hash, NewHash, NoHash
<1> QED
  BY <1>1, <1>2, <1>3, <1>4, <1>5, <1>6

LEMMA HSetEffect ==
    ASSUME TInv, NEW a \in Actor, call[a] # None, HSet(a)
    PROVE  Effect(a)
<1>1. RedisTypeOK /\ got[a] \in Answers
  BY DEF TInv, TypeOK, RedisTypeOK
<1>2. call[a].tile \in Tile /\ call[a].kind \in Kind
  BY Commands DEF Call
<1>3. /\ UNCHANGED <<latencies, abandoned, attempts, others, ttl, disturbed>>
      /\ Current(a).name = "HSET"
  BY DEF HSet
<1>4. CASE Current(a).key = "tiles"
  <2>1. tiles' = tiles \cup {call[a].tile} /\ UNCHANGED job
    BY <1>4 DEF HSet
  <2>2. \A k \in Key : Live(k) => Live(k)'
    BY <1>3, <2>1, JobKeysAssumption DEF Live, Key, JobScoped
  <2>3. RedisTypeOK'
    BY <1>1, <1>2, <1>3, <2>1, <2>2 DEF RedisTypeOK, LiveKeys
  <2>4. \A k \in JobScoped : Live(k)' /\ ~Live(k) => k = "tiles"
    BY <1>3, <2>1, JobKeysAssumption DEF Live, JobScoped
  <2>5. Owed(a) = {"tiles"}
    BY <1>3, <1>4, CurrentIs
  <2> QED
    BY <1>1, <1>3, <1>4, <2>3, <2>4, <2>5 DEF Effect, RedisTypeOK
<1>5. CASE Current(a).key # "tiles"
  <2>1. job' \in Hashed(a) /\ UNCHANGED tiles
    BY <1>5 DEF HSet
  <2>2. job' \in Hash /\ job'.exists
    <3>1. /\ job \in Hash /\ got[a].hash \in Hash
      BY <1>1 DEF RedisTypeOK, Answers
    <3>2. CASE call[a].kind \in {"create", "record", "status"}
      <4>1. CASE call[a].kind = "create"
        <5>1. job' = NewHash
          BY <2>1, <4>1 DEF Hashed
        <5> QED
          BY <3>1, <5>1, HashIs
      <4>2. CASE call[a].kind # "create"
        <5>1. PICK open \in {job.open, FALSE} :
                 job' = [job EXCEPT !.exists = TRUE, !.open = open]
          <6>1. CASE call[a].kind = "record"
            BY <2>1, <6>1 DEF Hashed
          <6>2. CASE call[a].kind = "status"
            BY <2>1, <6>2 DEF Hashed
          <6> QED
            BY <3>2, <4>2, <6>1, <6>2
        <5>2. open \in BOOLEAN
          BY <3>1, HashIs
        <5> QED
          BY <3>1, <5>1, <5>2, HashIs
      <4> QED
        BY <4>1, <4>2
    <3>3. CASE call[a].kind = "nuclear"
      <4>1. got[a].hash.exists
        <5>1. step[a] = 4
          BY <1>3, <1>5, <3>3, CurrentIs
        <5> QED
          BY <3>3, <5>1 DEF TInv, CallerInv
      <4> QED
        BY <2>1, <3>1, <3>3, <4>1 DEF Hashed, Hash
    <3> QED
      BY <1>3, <1>5, <3>2, <3>3, CurrentIs
  <2>3. \A k \in Key : Live(k) => Live(k)'
    BY <1>3, <2>1, <2>2, JobKeysAssumption DEF Live, Key, JobScoped
  <2>4. RedisTypeOK'
    BY <1>1, <1>3, <2>1, <2>2, <2>3 DEF RedisTypeOK, LiveKeys
  <2>5. \A k \in JobScoped : Live(k)' /\ ~Live(k) => k = "job"
    BY <1>3, <2>1, JobKeysAssumption DEF Live, JobScoped
  <2>6. Current(a).key = "job" /\ (Owed(a) = {"job"} \/ Owed(a) = {})
    BY <1>3, <1>5, CurrentIs
  <2> QED
    BY <1>1, <1>3, <2>4, <2>5, <2>6 DEF Effect, RedisTypeOK
<1> QED
  BY <1>4, <1>5

LEMMA AddEffect ==
    ASSUME TInv, NEW a \in Actor, call[a] # None, Add(a)
    PROVE  Effect(a)
<1>1. RedisTypeOK
  BY DEF TInv, TypeOK, RedisTypeOK
<1>2. call[a].tile \in Tile
  BY Commands DEF Call
<1>3. Counting(Current(a).name) /\ UNCHANGED <<tiles, others, ttl, disturbed>>
  BY DEF Add
<1>4. \/ Owed(a) = {Current(a).key}
      \/ Owed(a) = {} /\ Current(a).key = "job"
  BY <1>3, CurrentIs
<1>5. /\ attempts' = IF Current(a).key \in Tile
                     THEN [attempts EXCEPT ![Current(a).key] = @ + 1] ELSE attempts
      /\ latencies' = IF Current(a).key = "latencies" THEN latencies + 1 ELSE latencies
      /\ abandoned' = IF Current(a).key = "abandoned"
                      THEN abandoned \cup {call[a].tile} ELSE abandoned
      /\ \/ Current(a).key # "job" /\ job' = job
         \/ Current(a).key = "job" /\ job' = [job EXCEPT !.exists = TRUE]
         \/ /\ Current(a).key = "job"
            /\ job' = [job EXCEPT !.exists = TRUE, !.count = @ + 1]
  BY DEF Add
<1>6. /\ attempts' \in [Tile -> Nat]
      /\ \A t \in Tile : attempts'[t] >= attempts[t]
      /\ \A t \in Tile : attempts'[t] # attempts[t] => t = Current(a).key
  BY <1>1, <1>5 DEF RedisTypeOK
<1>7. /\ latencies' \in Nat /\ latencies' >= latencies
      /\ latencies' # latencies => Current(a).key = "latencies"
  BY <1>1, <1>5 DEF RedisTypeOK
<1>8. /\ abandoned' \in SUBSET Tile /\ abandoned \subseteq abandoned'
      /\ abandoned' # abandoned => Current(a).key = "abandoned"
  BY <1>1, <1>2, <1>5 DEF RedisTypeOK
<1>9. /\ job' \in Hash /\ (~job'.exists => job' = NoHash)
      /\ job.exists => job'.exists
      /\ job' # job => Current(a).key = "job"
  <2>1. job \in Hash
    BY <1>1 DEF RedisTypeOK
  <2> QED
    <3>1. CASE job' = job
      BY <1>1, <2>1, <3>1 DEF RedisTypeOK
    <3>2. CASE job' = [job EXCEPT !.exists = TRUE] /\ Current(a).key = "job"
      BY <2>1, <3>2, HashIs
    <3>3. CASE /\ job' = [job EXCEPT !.exists = TRUE, !.count = @ + 1]
               /\ Current(a).key = "job"
      BY <2>1, <3>3, HashIs
    <3> QED
      BY <1>5, <3>1, <3>2, <3>3
<1>10. ASSUME NEW k \in Key, Live(k)
       PROVE  Live(k)'
  <2>1. CASE k \in {"job", "tiles", "latencies", "abandoned", "leader", "stray"}
    BY <1>1, <1>3, <1>7, <1>8, <1>9, <1>10, <2>1, JobKeysAssumption
       DEF Live, RedisTypeOK
  <2>2. CASE k \in Tile
    <3>1. attempts[k] > 0 /\ attempts[k] \in Nat /\ attempts'[k] \in Nat
      BY <1>1, <1>6, <1>10, <2>2, JobKeysAssumption DEF Live, RedisTypeOK
    <3>2. attempts'[k] > 0
      BY <1>6, <2>2, <3>1
    <3> QED
      BY <2>2, <3>2, JobKeysAssumption DEF Live
  <2> QED
    BY <2>1, <2>2 DEF Key, JobScoped
<1>11. RedisTypeOK'
  BY <1>1, <1>3, <1>6, <1>7, <1>8, <1>9, <1>10 DEF RedisTypeOK, LiveKeys
<1>12. ASSUME NEW k \in JobScoped, Live(k)', ~Live(k)
       PROVE  k = Current(a).key
  <2>1. CASE k = "job"
    BY <1>9, <1>12, <2>1, JobKeysAssumption DEF Live
  <2>2. CASE k = "tiles"
    BY <1>3, <1>12, <2>2, JobKeysAssumption DEF Live
  <2>3. CASE k = "latencies"
    BY <1>7, <1>12, <2>3, JobKeysAssumption DEF Live
  <2>4. CASE k = "abandoned"
    BY <1>8, <1>12, <2>4, JobKeysAssumption DEF Live
  <2>5. CASE k \in Tile
    BY <1>6, <1>12, <2>5, JobKeysAssumption DEF Live
  <2> QED
    BY <2>1, <2>2, <2>3, <2>4, <2>5 DEF JobScoped
<1>13. Current(a).name # "EXPIRE"
  BY <1>3 DEF Counting
<1> QED
  BY <1>3, <1>4, <1>6, <1>11, <1>12, <1>13 DEF Effect

\* Every command.
LEMMA OpEffect ==
    ASSUME TInv, NEW a \in Actor, call[a] # None, RedisOp(a)
    PROVE  Effect(a)
<1>1. RedisTypeOK
  BY DEF TInv, TypeOK, RedisTypeOK
<1>2. \A t \in Tile : attempts[t] \in Nat
  BY <1>1 DEF RedisTypeOK
<1>3. CASE Expire(a)
  <2>1. /\ ttl' = ttl \cup ({Current(a).key} \cap LiveKeys)
        /\ UNCHANGED <<job, tiles, latencies, abandoned, attempts, others,
                       disturbed>>
    BY <1>3 DEF Expire
  <2>2. \A k \in Key : Live(k)' <=> Live(k)
    BY <2>1 DEF Live
  <2>3. RedisTypeOK'
    BY <1>1, <2>1, <2>2 DEF RedisTypeOK, LiveKeys
  <2> QED
    BY <1>2, <2>1, <2>2, <2>3 DEF Effect, LiveKeys, Key
<1>4. CASE Delete(a)
  <2>1. PICK keys : Remove(keys, "deleted") /\ Current(a).name # "EXPIRE"
    BY <1>4 DEF Delete
  <2> QED
    BY <1>2, <2>1, RemoveEffect DEF Effect
<1>5. CASE Read(a)
  <2>1. UNCHANGED <<redisVars, disturbed>> /\ Current(a).name # "EXPIRE"
    BY <1>5 DEF Read
  <2>2. \A k \in Key : Live(k)' <=> Live(k)
    BY <2>1 DEF Live, redisVars
  <2>3. RedisTypeOK'
    BY <1>1, <2>1, <2>2 DEF RedisTypeOK, LiveKeys, redisVars
  <2> QED
    BY <1>2, <2>1, <2>2, <2>3 DEF Effect, Key, redisVars
<1> QED
  BY <1>3, <1>4, <1>5, HSetEffect, AddEffect DEF RedisOp

\* How long the functions are.
LEMMA Lengths ==
    ASSUME NEW c \in Call
    PROVE  Len(Program(c)) = Length(c) /\ Length(c) \in 1..9
<1>1. c.kind \in Kind /\ c.tile \in Key
  BY DEF Call, Key, JobScoped
<1>2. CASE c.kind \in {"create", "status", "attempt", "abandon"}
  <2>1. \E name \in {"HSET", "INCR", "SADD"}, key \in {"job", "abandoned", c.tile} :
           Program(c) = Write(name, key)
    BY <1>2 DEF Program, CreateJob, SetFields, IncrTileAttempts, AddAbandonedTile
  <2>2. Len(Program(c)) = 2
    BY <1>1, <2>1, WriteIs DEF CommandName, Key, JobScoped
  <2> QED
    BY <1>2, <2>2 DEF Length
<1>3. CASE c.kind = "record"
  BY <1>3, RecordIs DEF Program, Length
<1>4. CASE c.kind = "nuclear"
  BY <1>4, NuclearIs DEF Program, Length
<1>5. CASE c.kind \in {"failed", "delete", "clear", "cleanup"}
  BY <1>5 DEF Program, Length, RecordPublishFailure, DeleteJobTileState,
     ClearOldJobs, CleanupOrphanedKeys
<1> QED
  BY <1>1, <1>2, <1>3, <1>4, <1>5 DEF Kind

\* The keys an actor owes an EXPIRE are the job's.
LEMMA OwedIs ==
    ASSUME TInv, NEW a \in Actor
    PROVE  Owed(a) \subseteq JobScoped
<1>1. CASE call[a] = None
  BY <1>1 DEF Owed
<1>2. CASE call[a] # None
  <2>1. call[a].tile \in Tile
    BY <1>2, Commands DEF Call
  <2>2. CASE WriteLine(call[a], step[a])
    BY <1>2, <2>1, <2>2, Commands DEF WriteLine, Line, JobScoped
  <2>3. CASE RecordLine(call[a], step[a])
    BY <1>2, <2>3, Commands DEF RecordLine, Line, JobScoped
  <2>4. CASE BareLine(call[a], step[a])
    BY <1>2, <2>4, Commands DEF BareLine, Line, JobScoped
  <2>5. CASE NuclearLine(call[a], step[a])
    BY <1>2, <2>5, Commands DEF NuclearLine, Line, JobScoped
  <2> QED
    BY <1>2, <2>2, <2>3, <2>4, <2>5, Commands
<1> QED
  BY <1>1, <1>2

\* What touches the keys.
LEMMA RedisNext ==
    ASSUME [Next]_vars
    PROVE  \/ UNCHANGED <<redisVars, disturbed>>
           \/ \E a \in Actor : call[a] # None /\ RedisOp(a)
           \/ \E k \in JobScoped : k \in ttl /\ Remove({k}, "expired")
           \/ LeaderRenews
<1>1. ASSUME NEW a \in Actor,
             Start(a) \/ Answer(a) \/ NoAnswer(a) \/ GivesUp(a) \/ Crash(a)
      PROVE  \/ UNCHANGED <<redisVars, disturbed>>
             \/ call[a] # None /\ RedisOp(a)
  BY <1>1 DEF Start, Answer, Execute, NoAnswer, Executed, GivesUp, Crash, RedisOp
<1>2. ASSUME NEW k \in JobScoped, KeyExpires(k)
      PROVE  k \in ttl /\ Remove({k}, "expired")
  BY <1>2 DEF KeyExpires
<1>3. CASE UNCHANGED vars
  BY <1>3 DEF vars, historyVars
<1> QED
  BY <1>1, <1>2, <1>3 DEF Next

LEMMA RedisType ==
    ASSUME TInv, [Next]_vars
    PROVE  RedisTypeOK'
<1>1. RedisTypeOK
  BY DEF TInv, TypeOK, RedisTypeOK
<1>2. CASE UNCHANGED <<redisVars, disturbed>>
  <2>1. \A k \in Key : Live(k)' <=> Live(k)
    BY <1>2 DEF Live, redisVars
  <2> QED
    BY <1>1, <1>2, <2>1 DEF RedisTypeOK, LiveKeys, redisVars
<1>3. CASE LeaderRenews
  <2>1. \A k \in Key : Live(k) => Live(k)'
    BY <1>3, JobKeysAssumption DEF LeaderRenews, Live, Key, JobScoped
  <2>2. ttl' \subseteq LiveKeys'
    BY <1>1, <1>3, <2>1 DEF RedisTypeOK, LeaderRenews, LiveKeys
  <2> QED
    BY <1>1, <1>3, <2>2 DEF RedisTypeOK, LeaderRenews, historyVars
<1>4. ASSUME NEW a \in Actor, call[a] # None, RedisOp(a)
      PROVE  RedisTypeOK'
  <2>1. Effect(a)
    BY <1>4, OpEffect
  <2> QED
    BY <2>1 DEF Effect
<1>5. ASSUME NEW k \in JobScoped, Remove({k}, "expired")
      PROVE  RedisTypeOK'
  <2>1. "expired" \in {"expired", "deleted"}
    OBVIOUS
  <2> QED
    BY <1>5, <2>1, RemoveEffect, Zenon
<1> QED
  BY <1>2, <1>3, <1>4, <1>5, RedisNext

\* How a command is tried.
LEMMA ClientType ==
    ASSUME TInv, [Next]_vars
    PROVE  /\ ClientTypeOK'
           /\ faults \in Nat /\ faults' \in Nat /\ faults <= faults'
<1>1. ClientTypeOK
  BY DEF TInv, TypeOK
<1>2. /\ MAX_RETRIES \in Nat \ {0} /\ MaxFaults \in Nat
      /\ faults \in Nat
  BY <1>1, ClientAssumption DEF ClientTypeOK
<1>3. ASSUME faults' = faults \/ Fault
      PROVE  faults \in Nat /\ faults' \in Nat /\ faults <= faults'
  <2>1. faults' \in 0..MaxFaults /\ faults <= faults'
    BY <1>1, <1>2, <1>3 DEF ClientTypeOK, Fault
  <2> QED
    BY <1>2, <2>1
<1>4. ASSUME NEW a \in Actor, NextAttempt(a), NEW name, ~LastAttempt(a, name)
      PROVE  /\ attempt' \in [Actor -> 0..MAX_RETRIES - 1]
             /\ again' \in [Actor -> BOOLEAN]
  <2>1. attempt[a] \in Nat /\ attempt[a] + 1 < MAX_RETRIES
    BY <1>1, <1>2, <1>4 DEF ClientTypeOK, LastAttempt, Attempts
  <2>2. attempt[a] + 1 \in 0..MAX_RETRIES - 1
    BY <1>2, <2>1
  <2> QED
    BY <1>1, <1>4, <2>2 DEF NextAttempt, ClientTypeOK
<1>5. ASSUME NEW a \in Actor, Fresh(a)
      PROVE  /\ attempt' \in [Actor -> 0..MAX_RETRIES - 1]
             /\ again' \in [Actor -> BOOLEAN]
  <2>1. 0 \in 0..MAX_RETRIES - 1
    BY <1>2
  <2> QED
    BY <1>1, <1>5, <2>1 DEF ClientTypeOK, Fresh
<1>6. ASSUME NEW a \in Actor, Answer(a)
      PROVE  Fresh(a) /\ faults' = faults
  BY <1>6 DEF Answer, Answered
<1>7. ASSUME NEW a \in Actor, GivesUp(a)
      PROVE  Fresh(a) /\ Fault
  BY <1>7 DEF GivesUp, Raised, RaiseTimeout, RaiseConnection
<1>8. ASSUME NEW a \in Actor, Crash(a)
      PROVE  Fresh(a) /\ Fault
  BY <1>8 DEF Crash, Fresh
<1>9. ASSUME NEW a \in Actor, NoAnswer(a)
      PROVE  /\ Fault
             /\ \/ UNCHANGED attempt /\ again' = [again EXCEPT ![a] = TRUE]
                \/ NextAttempt(a) /\ ~LastAttempt(a, Current(a).name)
  BY <1>9 DEF NoAnswer, Retried, RetryTimeout, RetryConnection
<1>10. ASSUME NEW a \in Actor, NoAnswer(a)
       PROVE  /\ attempt' \in [Actor -> 0..MAX_RETRIES - 1]
              /\ again' \in [Actor -> BOOLEAN]
  <2>1. CASE UNCHANGED attempt /\ again' = [again EXCEPT ![a] = TRUE]
    BY <1>1, <2>1 DEF ClientTypeOK
  <2>2. CASE NextAttempt(a) /\ ~LastAttempt(a, Current(a).name)
    BY <1>4, <2>2
  <2> QED
    BY <1>9, <1>10, <2>1, <2>2
<1>11. ASSUME UNCHANGED <<attempt, again>>
       PROVE  /\ attempt' \in [Actor -> 0..MAX_RETRIES - 1]
              /\ again' \in [Actor -> BOOLEAN]
  BY <1>1, <1>11 DEF ClientTypeOK
<1>12. \/ UNCHANGED <<attempt, again>> /\ (faults' = faults \/ Fault)
       \/ \E a \in Actor : Answer(a) \/ NoAnswer(a) \/ GivesUp(a) \/ Crash(a)
  BY DEF Next, Start, KeyExpires, LeaderRenews, vars, clientVars
<1>13. faults' = faults \/ Fault
  BY <1>6, <1>7, <1>8, <1>9, <1>12, Zenon
<1>14. /\ attempt' \in [Actor -> 0..MAX_RETRIES - 1]
       /\ again' \in [Actor -> BOOLEAN]
  BY <1>5, <1>6, <1>7, <1>8, <1>10, <1>11, <1>12, Zenon
<1>15. faults' \in 0..MaxFaults
  BY <1>1, <1>2, <1>13 DEF ClientTypeOK, Fault
<1> QED
  BY <1>2, <1>3, <1>13, <1>14, <1>15 DEF ClientTypeOK

\* What an answer is.
LEMMA ReplyIs ==
    ASSUME TInv, NEW a \in Actor, call[a] # None
    PROVE  /\ Reply(a) \in Answers
           /\ Current(a).name = "SCAN" =>
                 Reply(a) = [got[a] EXCEPT !.keys = LiveKeys]
           /\ Current(a).name = "HGETALL" =>
                 Reply(a) = [got[a] EXCEPT !.hash = job]
           /\ Current(a) = Cmd("HSET", "tiles") =>
                 Reply(a) = [got[a] EXCEPT !.new = call[a].tile \notin tiles]
           /\ Current(a).name # "SCAN" => Reply(a).keys = got[a].keys
           /\ Current(a).name # "HGETALL" => Reply(a).hash = got[a].hash
           /\ Current(a) # Cmd("HSET", "tiles") => Reply(a).new = got[a].new
<1>1. got[a] \in Answers /\ job \in Hash /\ tiles \in SUBSET Tile
  BY DEF TInv, TypeOK
<1>2. Cardinality(tiles) \in Nat
  BY <1>1, FS_Subset, FS_CardinalityType, JobKeysAssumption
<1>3. LiveKeys \in SUBSET Key
  BY DEF LiveKeys
<1>4. CASE Current(a).name = "SCAN"
  <2>1. /\ Reply(a) = [got[a] EXCEPT !.keys = LiveKeys]
        /\ Current(a) # Cmd("HSET", "tiles")
    BY <1>4 DEF Reply, Cmd
  <2> QED
    BY <1>1, <1>3, <1>4, <2>1 DEF Answers
<1>5. CASE Current(a).name = "HGETALL"
  <2>1. /\ Reply(a) = [got[a] EXCEPT !.hash = job]
        /\ Current(a) # Cmd("HSET", "tiles")
    BY <1>5 DEF Reply, Cmd
  <2> QED
    BY <1>1, <1>5, <2>1 DEF Answers
<1>6. CASE Current(a).name = "HLEN"
  <2>1. Reply(a) = [got[a] EXCEPT !.length = Cardinality(tiles)]
        /\ Current(a) # Cmd("HSET", "tiles")
    BY <1>6 DEF Reply, Cmd
  <2> QED
    BY <1>1, <1>2, <1>6, <2>1 DEF Answers
<1>7. CASE Current(a) = Cmd("HSET", "tiles")
  <2>1. /\ Reply(a) = [got[a] EXCEPT !.new = call[a].tile \notin tiles]
        /\ Current(a).name = "HSET"
    BY <1>7 DEF Reply, Cmd
  <2>2. (call[a].tile \notin tiles) \in BOOLEAN
    OBVIOUS
  <2>3. \A b \in BOOLEAN : [got[a] EXCEPT !.new = b] \in Answers
    BY <1>1 DEF Answers
  <2>4. Reply(a).keys = got[a].keys /\ Reply(a).hash = got[a].hash
    BY <1>1, <2>1 DEF Answers
  <2> QED
    BY <1>7, <2>1, <2>2, <2>3, <2>4
<1>8. CASE /\ Current(a).name \notin {"SCAN", "HGETALL", "HLEN"}
           /\ Current(a) # Cmd("HSET", "tiles")
  <2>1. Reply(a) = got[a]
    BY <1>8 DEF Reply
  <2> QED
    BY <1>1, <1>8, <2>1
<1> QED
  BY <1>4, <1>5, <1>6, <1>7, <1>8

\* What the actors do, as far as their functions go.
Starting(a, c) ==
    /\ call[a] = None
    /\ May(a, c)
    /\ call' = [call EXCEPT ![a] = c]
    /\ UNCHANGED <<step, got>>

Going(a) ==
    /\ ~Ends(a, Reply(a))
    /\ step' = [step EXCEPT ![a] = Following(a, Reply(a))]
    /\ got' = [got EXCEPT ![a] = Reply(a)]
    /\ UNCHANGED call

LEMMA CallNext ==
    ASSUME [Next]_vars
    PROVE  \/ UNCHANGED <<call, step, got>>
           \/ \E a \in Actor, c \in Call : Starting(a, c)
           \/ \E a \in Actor : call[a] # None /\ Leave(a)
           \/ \E a \in Actor : call[a] # None /\ Answer(a) /\ Going(a)
<1>1. ASSUME NEW a \in Actor, Start(a)
      PROVE  \E c \in Call : Starting(a, c)
  BY <1>1 DEF Start, Starting
<1>2. ASSUME NEW a \in Actor, Answer(a)
      PROVE  call[a] # None /\ (Leave(a) \/ Going(a))
  BY <1>2 DEF Answer, Advance, Going
<1>3. ASSUME NEW a \in Actor, NoAnswer(a)
      PROVE  UNCHANGED <<call, step, got>>
  BY <1>3 DEF NoAnswer, callVars
<1>4. ASSUME NEW a \in Actor, GivesUp(a) \/ Crash(a)
      PROVE  call[a] # None /\ Leave(a)
  BY <1>4 DEF GivesUp, Raise, Crash
<1>5. CASE (\E k \in JobScoped : KeyExpires(k)) \/ LeaderRenews \/ UNCHANGED vars
  BY <1>5 DEF KeyExpires, LeaderRenews, callVars, vars
<1> QED
  BY <1>1, <1>2, <1>3, <1>4, <1>5 DEF Next

\* An actor is at a command of its function or in none.
LEMMA CallType ==
    ASSUME TInv, [Next]_vars
    PROVE  /\ call' \in [Actor -> Call \cup {None}]
           /\ step' \in [Actor -> 1..9]
           /\ got' \in [Actor -> Answers]
           /\ \A a \in Actor : Placed(a)'
<1>1. /\ call \in [Actor -> Call \cup {None}]
      /\ step \in [Actor -> 1..9]
      /\ got \in [Actor -> Answers]
      /\ \A a \in Actor : Placed(a)
  BY DEF TInv, TypeOK
<1>2. CASE UNCHANGED <<call, step, got>>
  BY <1>1, <1>2 DEF Placed, Idle, Busy
<1>3. ASSUME NEW a \in Actor, NEW c \in Call, Starting(a, c)
      PROVE  /\ call' \in [Actor -> Call \cup {None}]
             /\ step' \in [Actor -> 1..9]
             /\ got' \in [Actor -> Answers]
             /\ \A b \in Actor : Placed(b)'
  <2>1. /\ call' = [call EXCEPT ![a] = c] /\ step' = step /\ got' = got
        /\ call[a] = None
    BY <1>3 DEF Starting
  <2>2. Placed(a)'
    <3>1. step'[a] = 1 /\ got'[a] = Nothing /\ call'[a] = c
      BY <1>1, <2>1 DEF Placed, Idle
    <3>2. Len(Program(c)) = Length(c) /\ Length(c) \in 1..9
      BY Lengths, Zenon
    <3> DEFINE n == Len(Program(c))
    <3> HIDE DEF n
    <3>3. n = Length(c)
      BY <3>2, Zenon DEF n
    <3>4. step'[a] \in 1..n
      BY <3>1, <3>2, <3>3
    <3> QED
      BY <3>1, <3>4, Zenon DEF Placed, Idle, Busy, n
  <2>3. ASSUME NEW b \in Actor
        PROVE  Placed(b)'
    <3>1. CASE b = a
      BY <2>2, <3>1
    <3>2. CASE b # a
      BY <1>1, <2>1, <3>2 DEF Placed, Idle, Busy
    <3> QED
      BY <3>1, <3>2
  <2> QED
    BY <1>1, <2>1, <2>3
<1>4. ASSUME NEW a \in Actor, Leave(a)
      PROVE  /\ call' \in [Actor -> Call \cup {None}]
             /\ step' \in [Actor -> 1..9]
             /\ got' \in [Actor -> Answers]
             /\ \A b \in Actor : Placed(b)'
  <2>1. /\ call' = [call EXCEPT ![a] = None] /\ step' = [step EXCEPT ![a] = 1]
        /\ got' = [got EXCEPT ![a] = Nothing]
    BY <1>4 DEF Leave
  <2>2. Nothing \in Answers
    BY DEF Nothing, Answers, NoHash, Hash
  <2>3. ASSUME NEW b \in Actor
        PROVE  Placed(b)'
    <3>1. CASE b = a
      BY <1>1, <2>1, <3>1 DEF Placed, Idle
    <3>2. CASE b # a
      BY <1>1, <2>1, <3>2 DEF Placed, Idle, Busy
    <3> QED
      BY <3>1, <3>2
  <2> QED
    BY <1>1, <2>1, <2>2, <2>3
<1>5. ASSUME NEW a \in Actor, call[a] # None, Going(a)
      PROVE  /\ call' \in [Actor -> Call \cup {None}]
             /\ step' \in [Actor -> 1..9]
             /\ got' \in [Actor -> Answers]
             /\ \A b \in Actor : Placed(b)'
  <2> DEFINE next == Following(a, Reply(a))
  <2>1. /\ step' = [step EXCEPT ![a] = next]
        /\ got' = [got EXCEPT ![a] = Reply(a)]
        /\ call' = call
    BY <1>5 DEF Going
  <2>2. /\ call[a] \in Call
        /\ step[a] \in 1..Len(Program(call[a]))
        /\ Len(Program(call[a])) = Length(call[a])
        /\ Length(call[a]) \in 1..9
    BY <1>5, Commands, Lengths
  <2>3. step[a] # Len(Program(call[a]))
    BY <1>5 DEF Going, Ends
  <2>4. next \in 1..Len(Program(call[a]))
    <3>1. CASE call[a].kind = "record"
      BY <2>2, <2>3, <3>1 DEF Following, Length
    <3>2. CASE call[a].kind = "nuclear"
      BY <2>2, <2>3, <3>2 DEF Following, Length
    <3>3. CASE call[a].kind \notin {"record", "nuclear"}
      BY <2>2, <2>3, <3>3 DEF Following
    <3> QED
      BY <3>1, <3>2, <3>3
  <2>5. next \in 1..9
    BY <2>2, <2>4
  <2>6. Reply(a) \in Answers
    BY <1>5, ReplyIs
  <2> HIDE DEF next
  <2>7. ASSUME NEW b \in Actor
        PROVE  Placed(b)'
    <3>1. CASE b = a
      <4>1. step'[a] = next /\ call'[a] = call[a]
        BY <1>1, <2>1
      <4> QED
        BY <1>5, <2>2, <2>4, <3>1, <4>1 DEF Placed, Busy
    <3>2. CASE b # a
      BY <1>1, <2>1, <3>2 DEF Placed, Idle, Busy
    <3> QED
      BY <3>1, <3>2
  <2> QED
    BY <1>1, <2>1, <2>5, <2>6, <2>7
<1> QED
  BY <1>2, <1>3, <1>4, <1>5, CallNext

\* The hash that nuclear_cleanup() is to restore was there.
LEMMA CallerNext ==
    ASSUME TInv, [Next]_vars
    PROVE  CallerInv'
<1>1. /\ call \in [Actor -> Call \cup {None}]
      /\ step \in [Actor -> 1..9]
      /\ got \in [Actor -> Answers]
      /\ CallerInv
  BY DEF TInv, TypeOK
<1> DEFINE Fits(b) ==
        call[b] # None =>
            /\ call[b].kind \in {"create", "failed"} => b = "upload"
            /\ call[b].kind = "record" <=> b = "listener"
            /\ call[b].kind \in {"clear", "cleanup", "nuclear"} => b = "admin"
            /\ call[b].kind = "nuclear" /\ step[b] >= 4 => got[b].hash.exists
<1>2. \A b \in Actor : Fits(b)
  BY <1>1 DEF CallerInv
<1> SUFFICES ASSUME NEW b \in Actor
             PROVE  Fits(b)'
  BY DEF CallerInv
<1>3. CASE call'[b] = call[b] /\ step'[b] = step[b] /\ got'[b] = got[b]
  BY <1>2, <1>3
<1>4. CASE call'[b] = None
  BY <1>4
<1>5. ASSUME NEW c \in Call, Starting(b, c)
      PROVE  Fits(b)'
  <2>1. call'[b] = c /\ step'[b] = step[b] /\ call[b] = None /\ May(b, c)
    BY <1>1, <1>5 DEF Starting
  <2>2. step[b] = 1
    BY <2>1 DEF TInv, Placed, Idle
  <2> QED
    BY <2>1, <2>2 DEF May
<1>6. ASSUME call[b] # None, Going(b)
      PROVE  Fits(b)'
  <2>1. /\ call'[b] = call[b] /\ step'[b] = Following(b, Reply(b))
        /\ got'[b] = Reply(b) /\ ~Ends(b, Reply(b))
    BY <1>1, <1>6 DEF Going
  <2>2. ASSUME call[b].kind = "nuclear", step'[b] >= 4
        PROVE  Reply(b).hash.exists
    <3>1. /\ step[b] \in 1..5 /\ step[b] # 5
          /\ NuclearLine(call[b], step[b])
      BY <1>6, <2>1, <2>2, Commands
         DEF WriteLine, RecordLine, BareLine, Line, Ends, Length
    <3>2. step[b] \in {3, 4}
      BY <2>1, <2>2, <3>1 DEF Following
    <3>3. CASE step[b] = 3
      BY <2>1, <2>2, <3>3 DEF Ends
    <3>4. CASE step[b] = 4
      <4>1. Current(b) = Cmd("HSET", "job")
        BY <1>6, <3>1, <3>4, Commands DEF NuclearLine, Line
      <4>2. Reply(b).hash = got[b].hash
        BY <1>6, <4>1, ReplyIs DEF Cmd
      <4> QED
        BY <1>2, <1>6, <2>2, <3>4, <4>2
    <3> QED
      BY <3>2, <3>3, <3>4
  <2> QED
    BY <1>2, <1>6, <2>1, <2>2
<1> QED
  <2>1. CASE UNCHANGED <<call, step, got>>
    BY <1>3, <2>1
  <2>2. ASSUME NEW a \in Actor, NEW c \in Call, Starting(a, c)
        PROVE  Fits(b)'
    <3>1. a # b => call'[b] = call[b] /\ step'[b] = step[b] /\ got'[b] = got[b]
      BY <1>1, <2>2 DEF Starting
    <3> QED
      BY <1>3, <1>5, <2>2, <3>1
  <2>3. ASSUME NEW a \in Actor, Leave(a)
        PROVE  Fits(b)'
    <3>1. IF a = b THEN call'[b] = None
          ELSE call'[b] = call[b] /\ step'[b] = step[b] /\ got'[b] = got[b]
      BY <1>1, <2>3 DEF Leave
    <3> QED
      BY <1>3, <1>4, <3>1
  <2>4. ASSUME NEW a \in Actor, call[a] # None, Going(a)
        PROVE  Fits(b)'
    <3>1. a # b => call'[b] = call[b] /\ step'[b] = step[b] /\ got'[b] = got[b]
      BY <1>1, <2>4 DEF Going
    <3> QED
      BY <1>3, <1>6, <2>4, <3>1
  <2> QED
    BY <2>1, <2>2, <2>3, <2>4, CallNext

\* What the history has recorded.
LEMMA HistoryType ==
    ASSUME TInv, [Next]_vars
    PROVE  /\ calls' \in 0..MaxCalls
           /\ created' \in {"no", "begun", "yes"}
           /\ cut' \in SUBSET JobScoped
           /\ asked' \in [Tile -> Nat]
           /\ returned' \in [Tile -> Nat]
<1>1. /\ calls \in 0..MaxCalls /\ MaxCalls \in Nat
      /\ created \in {"no", "begun", "yes"}
      /\ cut \in SUBSET JobScoped
      /\ asked \in [Tile -> Nat]
      /\ returned \in [Tile -> Nat]
  BY JobKeysAssumption DEF TInv, TypeOK
<1>2. "job" \in JobScoped
  BY DEF JobScoped
<1>3. ASSUME NEW a \in Actor, Start(a)
      PROVE  /\ calls' \in 0..MaxCalls
             /\ created' \in {"no", "begun", "yes"}
             /\ cut' \in SUBSET JobScoped
             /\ asked' \in [Tile -> Nat]
             /\ returned' \in [Tile -> Nat]
  <2>1. calls' \in 0..MaxCalls /\ cut' = cut /\ returned' = returned
    BY <1>1, <1>3 DEF Start
  <2>2. PICK c \in Call :
           /\ created' = IF c.kind = "create" THEN "begun" ELSE created
           /\ asked' = IF c.kind = "attempt"
                       THEN [asked EXCEPT ![c.tile] = @ + 1] ELSE asked
    BY <1>3 DEF Start
  <2>3. c.tile \in Tile
    BY DEF Call
  <2> QED
    BY <1>1, <2>1, <2>2, <2>3
<1>4. ASSUME NEW a \in Actor, call[a] # None
      PROVE  /\ Owed(a) \subseteq JobScoped
             /\ [returned EXCEPT ![call[a].tile] = @ + 1] \in [Tile -> Nat]
  <2>1. call[a].tile \in Tile
    BY <1>4, Commands DEF Call
  <2> QED
    BY <1>1, <2>1, OwedIs
<1>5. ASSUME NEW a \in Actor, Answer(a)
      PROVE  /\ calls' \in 0..MaxCalls
             /\ created' \in {"no", "begun", "yes"}
             /\ cut' \in SUBSET JobScoped
             /\ asked' \in [Tile -> Nat]
             /\ returned' \in [Tile -> Nat]
  <2>1. calls' = calls /\ asked' = asked /\ (created' = created \/ created' = "yes")
    BY <1>5 DEF Answer
  <2>2. cut' \in SUBSET JobScoped
    BY <1>1, <1>2, <1>5 DEF Answer, Execute
  <2>3. \/ returned' = returned
        \/ call[a] # None /\ returned' = [returned EXCEPT ![call[a].tile] = @ + 1]
    BY <1>5 DEF Answer
  <2> QED
    BY <1>1, <1>4, <2>1, <2>2, <2>3
<1>6. ASSUME NEW a \in Actor, NoAnswer(a) \/ GivesUp(a) \/ Crash(a)
      PROVE  /\ calls' \in 0..MaxCalls
             /\ created' \in {"no", "begun", "yes"}
             /\ cut' \in SUBSET JobScoped
             /\ asked' \in [Tile -> Nat]
             /\ returned' \in [Tile -> Nat]
  <2>1. UNCHANGED <<calls, created, asked, returned>>
    BY <1>6 DEF NoAnswer, callVars, GivesUp, Raise, Crash
  <2>2. cut' \in SUBSET JobScoped
    <3>1. CASE NoAnswer(a)
      BY <1>1, <1>2, <3>1 DEF NoAnswer, Executed, Execute
    <3>2. CASE GivesUp(a)
      BY <1>1, <1>2, <1>4, <3>2 DEF GivesUp
    <3>3. CASE Crash(a)
      BY <1>1, <1>4, <3>3 DEF Crash
    <3> QED
      BY <1>6, <3>1, <3>2, <3>3
  <2> QED
    BY <1>1, <2>1, <2>2
<1>7. CASE (\E k \in JobScoped : KeyExpires(k)) \/ LeaderRenews \/ UNCHANGED vars
  <2>1. UNCHANGED <<calls, created, cut, asked, returned>>
    BY <1>7 DEF KeyExpires, LeaderRenews, callVars, historyVars, vars
  <2> QED
    BY <1>1, <2>1
<1> QED
  BY <1>3, <1>5, <1>6, <1>7 DEF Next

LEMMA TypeInductive ==
    ASSUME TInv, [Next]_vars
    PROVE  TInv'
<1>1. RedisTypeOK'
  BY RedisType
<1>2. ClientTypeOK'
  BY ClientType
<1>3. /\ call' \in [Actor -> Call \cup {None}]
      /\ step' \in [Actor -> 1..9]
      /\ got' \in [Actor -> Answers]
      /\ \A a \in Actor : Placed(a)'
  BY CallType
<1>4. /\ calls' \in 0..MaxCalls
      /\ created' \in {"no", "begun", "yes"}
      /\ cut' \in SUBSET JobScoped
      /\ asked' \in [Tile -> Nat]
      /\ returned' \in [Tile -> Nat]
  BY HistoryType
<1>5. CallerInv'
  BY CallerNext
<1>6. \A a \in Actor : got'[a].keys \subseteq Key /\ got'[a].hash \in Hash
  BY <1>3 DEF Answers
<1> QED
  BY <1>1, <1>2, <1>3, <1>4, <1>5, <1>6 DEF TInv, TypeOK, RedisTypeOK

LEMMA InitType == Init => TInv
<1> SUFFICES ASSUME Init
             PROVE  TInv
  OBVIOUS
<1>1. Nothing \in Answers /\ NoHash \in Hash
  BY DEF Nothing, Answers, NoHash, Hash
<1>2. 0 \in 0..MAX_RETRIES - 1 /\ 0 \in 0..MaxFaults /\ 0 \in 0..MaxCalls
  BY ClientAssumption, JobKeysAssumption
<1>3. ClientTypeOK
  BY <1>2 DEF Init, ClientInit, ClientTypeOK
<1>4. RedisTypeOK
  BY <1>1 DEF Init, RedisTypeOK
<1>5. /\ call \in [Actor -> Call \cup {None}]
      /\ step \in [Actor -> 1..9]
      /\ got \in [Actor -> Answers]
      /\ \A a \in Actor : Placed(a) /\ call[a] = None
      /\ \A a \in Actor : got[a].keys \subseteq Key /\ got[a].hash \in Hash
  BY <1>1 DEF Init, Placed, Idle, Answers
<1>6. /\ calls \in 0..MaxCalls
      /\ created \in {"no", "begun", "yes"}
      /\ cut \in SUBSET JobScoped
      /\ asked \in [Tile -> Nat]
      /\ returned \in [Tile -> Nat]
  BY <1>2 DEF Init
<1>7. CallerInv
  BY <1>5 DEF CallerInv
<1> QED
  BY <1>3, <1>4, <1>5, <1>6, <1>7 DEF TInv, TypeOK, RedisTypeOK

LEMMA Typed == Spec => []TInv
<1>1. TInv /\ [Next]_vars => TInv'
  BY TypeInductive
<1> QED
  BY InitType, <1>1, PTL DEF Spec

\* The keys, the functions that are at work on them and the history are always
\* what they were declared to be (app/jobstore.py:26-50): in particular only what
\* exists has a TTL, and a job without its hash has no status and no counter.
THEOREM TypeCorrect == Spec => []TypeOK
<1>1. TInv => TypeOK
  BY DEF TInv
<1> QED
  BY Typed, <1>1, PTL

----------------------------------------------------------------------------
(* The budget of a tile.                                                   *)

\* An INCR that has been answered was executed.
LEMMA Counts ==
    ASSUME TInv, NEW a \in Actor, Answer(a), Current(a).name = "INCR"
    PROVE  /\ call[a].tile \in Tile
           /\ attempts' = [attempts EXCEPT ![call[a].tile] = @ + 1]
<1>1. call[a] # None /\ Add(a)
  BY DEF Answer, Execute, HSet, Expire, Delete, Read
<1>2. Current(a) = Cmd("INCR", call[a].tile) /\ call[a].tile \in Tile
  <2>1. Counting(Current(a).name)
    BY DEF Counting
  <2>2. call[a].kind = "attempt"
    BY <1>1, CurrentIs
  <2>3. call[a].tile \in Tile
    BY <1>1, Commands DEF Call
  <2> QED
    BY <1>1, <2>1, <2>2, <2>3, CurrentIs
<1>3. Current(a).key = call[a].tile
  BY <1>2 DEF Cmd
<1> QED
  BY <1>1, <1>2, <1>3 DEF Add

LEMMA UndercountsNext ==
    ASSUME TInv, NeverUndercounts, [Next]_vars
    PROVE  NeverUndercounts'
<1>1. /\ attempts \in [Tile -> Nat] /\ returned \in [Tile -> Nat]
      /\ attempts' \in [Tile -> Nat] /\ returned' \in [Tile -> Nat]
  BY TypeInductive DEF TInv, TypeOK
<1> SUFFICES ASSUME disturbed' = {}, NEW t \in Tile
             PROVE  returned'[t] <= attempts'[t]
  BY DEF NeverUndercounts
<1>2. disturbed = {} /\ attempts'[t] >= attempts[t]
  <2>1. CASE UNCHANGED <<redisVars, disturbed>>
    BY <1>1, <2>1 DEF redisVars
  <2>2. ASSUME NEW a \in Actor, call[a] # None, RedisOp(a)
        PROVE  disturbed = {} /\ attempts'[t] >= attempts[t]
    <3>1. Effect(a)
      BY <2>2, OpEffect
    <3> QED
      BY <3>1 DEF Effect
  <2>3. ASSUME NEW k \in JobScoped, Remove({k}, "expired")
        PROVE  disturbed = {} /\ attempts'[t] >= attempts[t]
    <3>1. "expired" \in {"expired", "deleted"}
      OBVIOUS
    <3>2. disturbed \subseteq disturbed' /\ (disturbed' = {} => attempts' = attempts)
      BY <2>3, <3>1, RemoveEffect, Zenon
    <3> QED
      BY <1>1, <3>2
  <2>4. CASE LeaderRenews
    BY <1>1, <2>4 DEF LeaderRenews, historyVars
  <2> QED
    BY <2>1, <2>2, <2>3, <2>4, RedisNext
<1>3. returned[t] <= attempts[t]
  BY <1>2 DEF NeverUndercounts
<1>4. CASE returned' = returned
  BY <1>1, <1>2, <1>3, <1>4
<1>5. ASSUME NEW a \in Actor, Answer(a), Current(a).name = "INCR"
      PROVE  returned'[t] <= attempts'[t]
  <2>1. /\ call[a].tile \in Tile
        /\ attempts' = [attempts EXCEPT ![call[a].tile] = @ + 1]
        /\ returned' = [returned EXCEPT ![call[a].tile] = @ + 1]
    BY <1>5, Counts DEF Answer
  <2> QED
    BY <1>1, <1>3, <2>1
<1>6. \/ returned' = returned
      \/ \E a \in Actor : Answer(a) /\ Current(a).name = "INCR"
  <2>1. ASSUME NEW a \in Actor, Answer(a)
        PROVE  returned' = returned \/ Current(a).name = "INCR"
    BY <2>1 DEF Answer
  <2>2. ASSUME NEW a \in Actor, Start(a) \/ NoAnswer(a) \/ GivesUp(a) \/ Crash(a)
        PROVE  returned' = returned
    BY <2>2 DEF Start, NoAnswer, GivesUp, Raise, Crash
  <2>3. CASE (\E k \in JobScoped : KeyExpires(k)) \/ LeaderRenews \/ UNCHANGED vars
    BY <2>3 DEF KeyExpires, LeaderRenews, historyVars, vars
  <2> QED
    BY <2>1, <2>2, <2>3 DEF Next
<1> QED
  BY <1>4, <1>5, <1>6

\* Whatever the failures, the retries and the other threads do, an attempt that
\* the reaper has been told of is in the counter it compares with MAX_RETRIES, as
\* long as nobody has deleted the job's keys (app/jobstore.py:303-310).
THEOREM UndercountTheorem == Spec => []NeverUndercounts
<1>1. Init => NeverUndercounts
  BY DEF Init, NeverUndercounts
<1>2. TInv /\ NeverUndercounts /\ [Next]_vars => NeverUndercounts'
  BY UndercountsNext
<1> QED
  BY Typed, <1>1, <1>2, PTL DEF Spec

----------------------------------------------------------------------------
(* The TTLs.                                                               *)

\* A function that owes a key its EXPIRE goes on to send it.
LEMMA GoesOn ==
    ASSUME TInv, NEW a \in Actor, Answer(a), Owed(a) # {},
           Current(a).name # "EXPIRE"
    PROVE  Owed(a)' = Owed(a)
<1>1. call[a] # None /\ Execute(a) /\ Advance(a, Reply(a))
  BY DEF Answer
<1> DEFINE c == call[a]
           i == step[a]
<1>2. /\ c \in Call /\ i \in 1..Len(Program(c)) /\ Len(Program(c)) = Length(c)
      /\ Owed(a) = Owing(Program(c), i) /\ Current(a) = Program(c)[i]
      /\ \/ WriteLine(c, i) \/ RecordLine(c, i) \/ BareLine(c, i)
         \/ NuclearLine(c, i)
  BY <1>1, Commands
<1>3. \/ c.kind \in {"create", "status", "attempt", "abandon"} /\ i = 1
      \/ c.kind = "record" /\ i \in {1, 3, 5}
      \/ c.kind = "nuclear" /\ i = 4
  <2>1. CASE WriteLine(c, i)
    BY <1>2, <2>1 DEF WriteLine, Line, Cmd
  <2>2. CASE RecordLine(c, i)
    BY <1>2, <2>2 DEF RecordLine, Line, Cmd
  <2>3. CASE BareLine(c, i)
    BY <1>2, <2>3 DEF BareLine, Line, Cmd
  <2>4. CASE NuclearLine(c, i)
    BY <1>2, <2>4 DEF NuclearLine, Line, Cmd
  <2> QED
    BY <1>2, <2>1, <2>2, <2>3, <2>4
<1>4. i # Len(Program(c)) /\ i \in Nat
  BY <1>2, <1>3 DEF Length
<1>5. Going(a) /\ Following(a, Reply(a)) = i + 1
  BY <1>1, <1>3, <1>4 DEF Advance, Going, Ends, Following
<1>6. call'[a] = c /\ step'[a] = i + 1 /\ c # None
  BY <1>1, <1>5 DEF Going, TInv, TypeOK
<1>7. Owed(a)' = Owing(Program(c), i + 1)
  BY <1>6 DEF Owed, Owing
<1>8. i + 1 \in 1..Len(Program(c))
  <2> DEFINE n == Len(Program(c))
  <2>1. i \in 1..n /\ i # n /\ n = Length(c) /\ Length(c) \in 1..9
    BY <1>2, <1>4, Lengths, Zenon
  <2> HIDE DEF n
  <2>2. i + 1 \in 1..n
    BY <2>1
  <2> QED
    BY <2>2, Zenon DEF n
<1>9. \/ WriteLine(c, i + 1) \/ RecordLine(c, i + 1) \/ BareLine(c, i + 1)
      \/ NuclearLine(c, i + 1)
  BY <1>2, <1>8, Lines, Zenon
<1> HIDE DEF c, i
<1>10. Owing(Program(c), i + 1) = Owing(Program(c), i)
  <2>1. CASE c.kind \in {"create", "status", "attempt", "abandon"} /\ i = 1
    <3>1. WriteLine(c, 1) /\ WriteLine(c, 2)
      <4>1. i + 1 = 2
        BY <2>1
      <4>2. WriteLine(c, i)
        BY <1>2, <2>1 DEF RecordLine, BareLine, NuclearLine, Line
      <4>3. WriteLine(c, i + 1)
        BY <1>9, <2>1 DEF RecordLine, BareLine, NuclearLine, Line
      <4> QED
        BY <2>1, <4>1, <4>2, <4>3
    <3>2. Owing(Program(c), 1) = Owing(Program(c), 2)
      BY <2>1, <3>1 DEF WriteLine, Line
    <3> QED
      BY <2>1, <3>2
  <2>2. CASE c.kind = "record" /\ i \in {1, 3, 5}
    <3>1. RecordLine(c, i) /\ RecordLine(c, i + 1)
      BY <1>2, <1>9, <2>2 DEF WriteLine, BareLine, NuclearLine, Line
    <3> DEFINE n == i + 1
    <3>2. n \in {2, 4, 6} /\ (n = 2 <=> i = 1) /\ (n = 4 <=> i = 3)
      BY <2>2
    <3> HIDE DEF n
    <3>3. Owing(Program(c), n) = Owing(Program(c), i)
      <4>1. RecordLine(c, n)
        BY <3>1 DEF n
      <4> QED
        BY <2>2, <3>1, <3>2, <4>1 DEF RecordLine, Line
    <3> QED
      BY <3>3 DEF n
  <2>3. CASE c.kind = "nuclear" /\ i = 4
    <3>1. NuclearLine(c, i) /\ NuclearLine(c, i + 1)
      BY <1>2, <1>9, <2>3 DEF WriteLine, RecordLine, BareLine, Line
    <3>2. i + 1 = 5
      BY <2>3
    <3>3. NuclearLine(c, 4) /\ NuclearLine(c, 5)
      BY <2>3, <3>1, <3>2
    <3>4. Owing(Program(c), 4) = Owing(Program(c), 5)
      BY <3>3 DEF NuclearLine, Line
    <3> QED
      BY <2>3, <3>2, <3>4
  <2> QED
    BY <1>3, <2>1, <2>2, <2>3
<1> QED
  BY <1>2, <1>7, <1>10

\* A key that has a TTL, or is about to be given one, or somebody left without.
Covered(k) == k \in ttl \/ k \in cut \/ \E a \in Actor : k \in Owed(a)

LEMMA CoveredIs == EveryKeyExpires <=> \A k \in JobScoped : Live(k) => Covered(k)
  BY DEF EveryKeyExpires, LiveKeys, Covered, Key

\* What a step of one actor leaves alone.
LEMMA OthersOwe ==
    ASSUME TInv, [Next]_vars, NEW b \in Actor
    PROVE  \/ Owed(b)' = Owed(b)
           \/ Owed(b) = {}
           \/ Answer(b)
           \/ GivesUp(b) \/ Crash(b)
<1>1. call \in [Actor -> Call \cup {None}] /\ step \in [Actor -> 1..9]
  BY DEF TInv, TypeOK
<1>2. CASE call'[b] = call[b] /\ step'[b] = step[b]
  BY <1>2 DEF Owed
<1>3. ASSUME NEW a \in Actor, Start(a)
      PROVE  Owed(b) = {} \/ (call'[b] = call[b] /\ step'[b] = step[b])
  BY <1>1, <1>3 DEF Start, Owed
<1>4. ASSUME NEW a \in Actor, Answer(a) \/ GivesUp(a) \/ Crash(a), a # b
      PROVE  call'[b] = call[b] /\ step'[b] = step[b]
  BY <1>1, <1>4 DEF Answer, Advance, Leave, GivesUp, Raise, Crash
<1>5. ASSUME NEW a \in Actor, NoAnswer(a)
      PROVE  call'[b] = call[b] /\ step'[b] = step[b]
  BY <1>5 DEF NoAnswer, callVars
<1>6. CASE (\E k \in JobScoped : KeyExpires(k)) \/ LeaderRenews \/ UNCHANGED vars
  BY <1>2, <1>6 DEF KeyExpires, LeaderRenews, callVars, vars
<1> QED
  BY <1>2, <1>3, <1>4, <1>5, <1>6 DEF Next

\* The history only grows.
LEMMA CutNext ==
    ASSUME [Next]_vars
    PROVE  /\ cut \subseteq cut'
           /\ \A a \in Actor : GivesUp(a) \/ Crash(a) => Owed(a) \subseteq cut'
<1>1. ASSUME NEW a \in Actor,
             Start(a) \/ Answer(a) \/ NoAnswer(a) \/ GivesUp(a) \/ Crash(a)
      PROVE  cut \subseteq cut'
  <2>1. CASE Start(a) \/ Crash(a)
    BY <2>1 DEF Start, Crash
  <2>2. CASE Answer(a)
    BY <2>2 DEF Answer, Execute
  <2>3. CASE NoAnswer(a)
    BY <2>3 DEF NoAnswer, Executed, Execute
  <2>4. CASE GivesUp(a)
    BY <2>4 DEF GivesUp
  <2> QED
    BY <1>1, <2>1, <2>2, <2>3, <2>4
<1>2. ASSUME (\E k \in JobScoped : KeyExpires(k)) \/ LeaderRenews \/ UNCHANGED vars
      PROVE  cut \subseteq cut'
  BY <1>2 DEF KeyExpires, LeaderRenews, historyVars, vars
<1>3. \A a \in Actor : GivesUp(a) \/ Crash(a) => Owed(a) \subseteq cut'
  BY DEF GivesUp, Crash
<1> QED
  BY <1>1, <1>2, <1>3 DEF Next

\* A command that creates a key is followed by its EXPIRE, or noted.
LEMMA CreatedNext ==
    ASSUME TInv, [Next]_vars, NEW k \in JobScoped, Live(k)', ~Live(k)
    PROVE  k \in cut' \/ \E a \in Actor : k \in Owed(a)'
<1>1. ASSUME NEW a \in Actor, call[a] # None, RedisOp(a)
      PROVE  \/ Owed(a) = {k} /\ Current(a).key = k /\ Current(a).name # "EXPIRE"
             \/ /\ k = "job" /\ Owed(a) = {}
                /\ ~job.exists /\ job'.exists
  <2>1. Effect(a)
    BY <1>1, OpEffect
  <2>2. k = "job" => ~job.exists /\ job'.exists
    BY JobKeysAssumption DEF Live
  <2> QED
    BY <2>1, <2>2 DEF Effect
<1>2. ASSUME NEW a \in Actor, Answer(a)
      PROVE  k \in cut' \/ k \in Owed(a)'
  <2>1. call[a] # None /\ RedisOp(a)
    BY <1>2 DEF Answer, Execute, RedisOp
  <2>2. CASE Owed(a) = {k} /\ Current(a).name # "EXPIRE"
    BY <1>2, <2>2, GoesOn
  <2>3. CASE k = "job" /\ Owed(a) = {} /\ ~job.exists /\ job'.exists
    BY <1>2, <2>3 DEF Answer, Execute
  <2> QED
    BY <1>1, <2>1, <2>2, <2>3
<1>3. ASSUME NEW a \in Actor, NoAnswer(a)
      PROVE  k \in cut' \/ k \in Owed(a)'
  <2>1. Owed(a)' = Owed(a)
    BY <1>3 DEF NoAnswer, callVars, Owed
  <2>2. CASE UNCHANGED <<redisVars, disturbed, cut>>
    BY <2>2 DEF Live, redisVars
  <2>3. CASE Execute(a)
    <3>1. call[a] # None /\ RedisOp(a)
      BY <1>3, <2>3 DEF NoAnswer, Execute, RedisOp
    <3>2. CASE Owed(a) = {k}
      BY <2>1, <3>2
    <3>3. CASE k = "job" /\ Owed(a) = {} /\ ~job.exists /\ job'.exists
      BY <2>3, <3>3 DEF Execute
    <3> QED
      BY <1>1, <3>1, <3>2, <3>3
  <2> QED
    BY <1>3, <2>2, <2>3 DEF NoAnswer, Executed
<1>4. ASSUME NEW a \in Actor, GivesUp(a)
      PROVE  k \in cut'
  <2>1. call[a] # None
    BY <1>4 DEF GivesUp
  <2>2. CASE UNCHANGED <<redisVars, disturbed>>
    BY <2>2 DEF Live, redisVars
  <2>3. CASE RedisOp(a)
    <3>1. Owed(a) = {k} \/ (k = "job" /\ ~job.exists /\ job'.exists)
      BY <1>1, <2>1, <2>3
    <3> QED
      BY <1>4, <3>1 DEF GivesUp
  <2> QED
    BY <1>4, <2>2, <2>3 DEF GivesUp, RedisOp
<1>5. CASE (\E a \in Actor : Start(a) \/ Crash(a)) \/ UNCHANGED vars
  <2>1. UNCHANGED redisVars
    BY <1>5 DEF Start, Crash, vars
  <2> QED
    BY <2>1 DEF Live, redisVars
<1>6. ASSUME NEW key \in JobScoped, KeyExpires(key)
      PROVE  FALSE
  <2>1. Remove({key}, "expired") /\ "expired" \in {"expired", "deleted"}
    BY <1>6 DEF KeyExpires
  <2> QED
    BY <2>1, RemoveEffect
<1>7. CASE LeaderRenews
  BY <1>7, JobKeysAssumption DEF LeaderRenews, Live, JobScoped
<1> QED
  BY <1>2, <1>3, <1>4, <1>5, <1>6, <1>7 DEF Next

\* A TTL goes only with its key.
LEMMA TTLNext ==
    ASSUME TInv, [Next]_vars, NEW k \in JobScoped \cap ttl, Live(k)'
    PROVE  k \in ttl'
<1>1. CASE UNCHANGED <<redisVars, disturbed>>
  BY <1>1 DEF redisVars
<1>2. ASSUME NEW a \in Actor, call[a] # None, RedisOp(a)
      PROVE  k \in ttl'
  <2>1. Effect(a)
    BY <1>2, OpEffect
  <2> QED
    BY <2>1 DEF Effect
<1>3. ASSUME NEW key \in JobScoped, Remove({key}, "expired")
      PROVE  k \in ttl'
  <2>1. "expired" \in {"expired", "deleted"}
    OBVIOUS
  <2>2. ttl' = ttl \ {key} /\ k \notin {key}
    BY <1>3, <2>1, RemoveEffect, Zenon
  <2> QED
    BY <2>2
<1>4. CASE LeaderRenews
  BY <1>4 DEF LeaderRenews
<1> QED
  BY <1>1, <1>2, <1>3, <1>4, RedisNext

LEMMA ExpiresNext ==
    ASSUME TInv, EveryKeyExpires, [Next]_vars
    PROVE  EveryKeyExpires'
<1> SUFFICES ASSUME NEW k \in JobScoped, Live(k)'
             PROVE  Covered(k)'
  BY DEF EveryKeyExpires, LiveKeys, Covered, Key
<1>1. CASE ~Live(k)
  BY <1>1, CreatedNext DEF Covered
<1>2. CASE Live(k)
  <2>1. Covered(k)
    BY <1>2, CoveredIs
  <2>2. CASE k \in ttl
    BY <2>2, TTLNext DEF Covered
  <2>3. CASE k \in cut
    BY <2>3, CutNext DEF Covered
  <2>4. ASSUME NEW b \in Actor, k \in Owed(b)
        PROVE  Covered(k)'
    <3>1. CASE Owed(b)' = Owed(b)
      BY <2>4, <3>1 DEF Covered
    <3>2. CASE GivesUp(b) \/ Crash(b)
      BY <2>4, <3>2, CutNext DEF Covered
    <3>3. CASE Answer(b) /\ Current(b).name # "EXPIRE"
      BY <2>4, <3>1, <3>3, GoesOn
    <3>4. CASE Answer(b) /\ Current(b).name = "EXPIRE"
      <4>1. call[b] # None /\ RedisOp(b)
        BY <3>4 DEF Answer, Execute, RedisOp
      <4>2. Effect(b) /\ Owed(b) = {Current(b).key}
        BY <3>4, <4>1, OpEffect, CurrentIs
      <4> QED
        BY <2>4, <3>4, <4>2 DEF Effect, Covered
    <3> QED
      BY <2>4, <3>1, <3>2, <3>3, <3>4, OthersOwe
  <2> QED
    BY <2>1, <2>2, <2>3, <2>4 DEF Covered
<1> QED
  BY <1>1, <1>2

\* No key of a job stays for ever: in every interleaving of the functions, with
\* every deletion and restore in between, one without a TTL is about to be given
\* it, unless an exception or a crash came between its write and the EXPIRE or it
\* is the hash that a write without an EXPIRE created (app/jobstore.py:216-222).
THEOREM ExpireTheorem == Spec => []EveryKeyExpires
<1>1. Init => EveryKeyExpires
  <2> SUFFICES ASSUME Init, NEW k \in JobScoped
               PROVE  ~Live(k)
    BY CoveredIs
  <2> QED
    BY JobKeysAssumption DEF Init, Live, JobScoped, NoHash
<1>2. TInv /\ EveryKeyExpires /\ [Next]_vars => EveryKeyExpires'
  BY ExpiresNext
<1> QED
  BY Typed, <1>1, <1>2, PTL DEF Spec

----------------------------------------------------------------------------
(* The counter.                                                            *)

\* The results that were added and are not counted yet.
Uncounted ==
    IF \/ step["listener"] = 2 /\ got["listener"].new
       \/ step["listener"] \in 3..5
    THEN 1 ELSE 0

Storing(a) == call[a].kind = "record" /\ step[a] = 1
Tallying(a) == call[a].kind = "record" /\ step[a] = 5

\* Which functions there can be as long as nothing has been deleted.
Order ==
    /\ created # "yes" => tiles = {} /\ job.count = 0
    /\ \A a \in Actor : call[a] # None =>
          /\ call[a].kind = "create" => created = "begun"
          /\ call[a].kind = "record" => created = "yes"
          /\ call[a].kind = "nuclear" =>
                step[a] <= 3 /\ (got[a].hash.exists => job.exists)

\* The counter and the tiles differ by what is under way and by the failures.
Balance ==
    /\ job.count + Uncounted <= Cardinality(tiles) + faults
    /\ Cardinality(tiles) <= job.count + Uncounted + faults

CountInv == disturbed = {} => Order /\ Balance

\* Only the listener's HSET adds a tile, and only its HINCRBY counts one.
LEMMA CountEffect ==
    ASSUME TInv, CountInv, NEW a \in Actor, call[a] # None, RedisOp(a),
           disturbed' = {}
    PROVE  /\ disturbed = {}
           /\ job.exists => job'.exists
           /\ tiles' = IF Storing(a) THEN tiles \cup {call[a].tile} ELSE tiles
           /\ job'.count = IF Tallying(a) THEN job.count + 1 ELSE job.count
<1>1. RedisTypeOK /\ job \in Hash /\ got[a] \in Answers
  BY DEF TInv, TypeOK, RedisTypeOK
<1>2. Effect(a)
  BY OpEffect
<1>3. disturbed = {}
  BY <1>2 DEF Effect
<1>4. Order
  BY <1>3 DEF CountInv
<1>5. Storing(a) => Current(a) = Cmd("HSET", "tiles")
  BY Commands DEF Storing, WriteLine, RecordLine, BareLine, NuclearLine, Line
<1>6. Tallying(a) => Current(a) = Cmd("HINCRBY", "job")
  BY Commands DEF Tallying, WriteLine, RecordLine, BareLine, NuclearLine, Line
<1>7. CASE HSet(a)
  <2>1. Current(a).name = "HSET" /\ ~Tallying(a)
    BY <1>6, <1>7 DEF HSet, Cmd
  <2>2. CASE Current(a).key = "tiles"
    <3>1. Storing(a)
      BY <2>1, <2>2, CurrentIs DEF Storing
    <3> QED
      BY <1>3, <1>7, <2>1, <2>2, <3>1 DEF HSet
  <2>3. CASE Current(a).key # "tiles"
    <3>1. ~Storing(a) /\ tiles' = tiles /\ job' \in Hashed(a)
      BY <1>5, <1>7, <2>3 DEF HSet, Cmd
    <3>2. \/ call[a].kind = "create" \/ call[a].kind = "status"
          \/ call[a].kind = "record"
      BY <1>4, <2>1, <2>3, CurrentIs DEF Order
    <3>3. job'.exists /\ job'.count = job.count
      <4>1. CASE call[a].kind = "create"
        <5>1. job' = NewHash
          BY <3>1, <4>1 DEF Hashed
        <5>2. job.count = 0
          BY <1>4, <4>1 DEF Order
        <5> QED
          BY <1>1, <5>1, <5>2, HashIs
      <4>2. CASE call[a].kind # "create"
        <5>1. PICK open \in {job.open, FALSE} :
                 job' = [job EXCEPT !.exists = TRUE, !.open = open]
          <6>1. CASE call[a].kind = "record"
            BY <3>1, <6>1 DEF Hashed
          <6>2. CASE call[a].kind = "status"
            BY <3>1, <6>2 DEF Hashed
          <6> QED
            BY <3>2, <4>2, <6>1, <6>2
        <5>2. open \in BOOLEAN
          BY <1>1, HashIs
        <5>3. /\ [job EXCEPT !.exists = TRUE, !.open = open].exists
              /\ [job EXCEPT !.exists = TRUE, !.open = open].count = job.count
          BY <1>1, <5>2 DEF Hash
        <5> QED
          BY <5>1, <5>3
      <4> QED
        BY <3>2, <4>1, <4>2, Zenon
    <3> QED
      BY <1>3, <2>1, <3>1, <3>3
  <2> QED
    BY <2>2, <2>3
<1>8. CASE Add(a)
  <2>1. Counting(Current(a).name) /\ tiles' = tiles /\ ~Storing(a)
    BY <1>5, <1>8 DEF Add, Counting, Cmd
  <2>2. CASE Current(a).key # "job"
    BY <1>3, <1>6, <1>8, <2>1, <2>2 DEF Add, Cmd
  <2>3. CASE Current(a).key = "job" /\ call[a].kind = "failed"
    <3>1. job' = [job EXCEPT !.exists = TRUE] /\ ~Tallying(a)
      BY <1>8, <2>3 DEF Add, Tallying
    <3> QED
      BY <1>1, <1>3, <2>1, <3>1, HashIs
  <2>4. CASE Current(a).key = "job" /\ call[a].kind # "failed"
    <3>1. job' = [job EXCEPT !.exists = TRUE, !.count = @ + 1]
      BY <1>8, <2>4 DEF Add
    <3>2. Tallying(a)
      <4>1. call[a].tile # "job"
        BY Commands, JobKeysAssumption DEF Call
      <4> QED
        BY <2>1, <2>4, <4>1, CurrentIs DEF Tallying, Cmd
    <3> QED
      BY <1>1, <1>3, <2>1, <3>1, <3>2, HashIs
  <2> QED
    BY <2>2, <2>3, <2>4
<1>9. CASE Expire(a) \/ Read(a)
  <2>1. job' = job /\ tiles' = tiles /\ ~Storing(a) /\ ~Tallying(a)
    BY <1>5, <1>6, <1>9 DEF Expire, Read, redisVars, Cmd
  <2> QED
    BY <1>3, <2>1
<1>10. CASE Delete(a)
  <2>1. PICK keys : Remove(keys, "deleted")
    BY <1>10 DEF Delete
  <2>2. job' = job /\ tiles' = tiles
    BY <2>1, RemoveEffect
  <2>3. ~Storing(a) /\ ~Tallying(a)
    BY <1>5, <1>6, <1>10 DEF Delete, Cmd
  <2> QED
    BY <1>3, <2>2, <2>3
<1> QED
  BY <1>7, <1>8, <1>9, <1>10 DEF RedisOp

\* What else can happen to the keys.
LEMMA OtherEffect ==
    ASSUME TInv, disturbed' = {},
           \/ UNCHANGED <<redisVars, disturbed>>
           \/ \E k \in JobScoped : Remove({k}, "expired")
           \/ LeaderRenews
    PROVE  disturbed = {} /\ job' = job /\ tiles' = tiles
<1>1. CASE UNCHANGED <<redisVars, disturbed>> \/ LeaderRenews
  BY <1>1 DEF redisVars, LeaderRenews, historyVars
<1>2. ASSUME NEW k \in JobScoped, Remove({k}, "expired")
      PROVE  disturbed = {} /\ job' = job /\ tiles' = tiles
  <2>1. "expired" \in {"expired", "deleted"}
    OBVIOUS
  <2>2. disturbed \subseteq disturbed' /\ job' = job /\ tiles' = tiles
    BY <1>2, <2>1, RemoveEffect, Zenon
  <2> QED
    BY <2>2
<1> QED
  BY <1>1, <1>2

\* A flush disturbs a job that is there.
LEMMA Flushes ==
    ASSUME TInv, NEW a \in Actor, call[a] # None, Delete(a),
           call[a].kind = "nuclear", job.exists
    PROVE  disturbed' # {}
<1>1. Remove(Key, "deleted")
  BY DEF Delete, Targets
<1>2. "job" \in Key \cap JobScoped \cap LiveKeys
  BY JobKeysAssumption DEF Key, JobScoped, LiveKeys, Live
<1> QED
  BY <1>1, <1>2 DEF Remove

\* The keys after a step that has deleted nothing.
LEMMA KeysNext ==
    ASSUME TInv, CountInv, [Next]_vars, disturbed' = {}
    PROVE  /\ disturbed = {}
           /\ job.exists => job'.exists
           /\ \/ tiles' = tiles /\ job'.count = job.count
              \/ \E a \in Actor :
                    /\ call[a] # None
                    /\ call[a].kind = "record"
                    /\ Answer(a) \/ NoAnswer(a) \/ GivesUp(a)
<1>1. CASE \/ UNCHANGED <<redisVars, disturbed>>
           \/ \E k \in JobScoped : Remove({k}, "expired")
           \/ LeaderRenews
  BY <1>1, OtherEffect
<1>2. ASSUME NEW a \in Actor, call[a] # None, RedisOp(a)
      PROVE  /\ disturbed = {}
             /\ job.exists => job'.exists
             /\ \/ tiles' = tiles /\ job'.count = job.count
                \/ call[a].kind = "record"
  BY <1>2, CountEffect DEF Storing, Tallying
<1>3. ASSUME NEW a \in Actor, Answer(a) \/ NoAnswer(a) \/ GivesUp(a)
      PROVE  /\ call[a] # None
             /\ RedisOp(a) \/ UNCHANGED <<redisVars, disturbed>>
  BY <1>3 DEF Answer, NoAnswer, Executed, Execute, GivesUp, RedisOp
<1>4. ASSUME NEW a \in Actor, Answer(a) \/ NoAnswer(a) \/ GivesUp(a)
      PROVE  /\ disturbed = {}
             /\ job.exists => job'.exists
             /\ \/ tiles' = tiles /\ job'.count = job.count
                \/ /\ call[a] # None
                   /\ call[a].kind = "record"
                   /\ Answer(a) \/ NoAnswer(a) \/ GivesUp(a)
  <2>1. CASE RedisOp(a)
    BY <1>2, <1>3, <1>4, <2>1
  <2>2. CASE UNCHANGED <<redisVars, disturbed>>
    BY <2>2, OtherEffect
  <2> QED
    BY <1>3, <1>4, <2>1, <2>2
<1>5. CASE (\E a \in Actor : Start(a) \/ Crash(a)) \/ UNCHANGED vars
  <2>1. UNCHANGED <<redisVars, disturbed>>
    BY <1>5 DEF Start, Crash, vars, historyVars
  <2> QED
    BY <1>1, <2>1
<1>6. CASE \E k \in JobScoped : KeyExpires(k)
  BY <1>1, <1>6 DEF KeyExpires
<1>7. CASE LeaderRenews
  BY <1>1, <1>7
<1>8. \/ \E a \in Actor : Start(a) \/ Crash(a)
      \/ \E a \in Actor : Answer(a) \/ NoAnswer(a) \/ GivesUp(a)
      \/ \E k \in JobScoped : KeyExpires(k)
      \/ LeaderRenews \/ UNCHANGED vars
  BY DEF Next
<1> QED
  BY <1>4, <1>5, <1>6, <1>7, <1>8

\* The job is created once, and nothing but its creation comes before that.
LEMMA CreatedOnce ==
    ASSUME TInv, Order, [Next]_vars
    PROVE  /\ created = "yes" => created' = "yes"
           /\ created = "begun" =>
                 \/ created' = "begun"
                 \/ /\ created' = "yes"
                    /\ \A a \in Actor :
                          call[a] # None /\ call[a].kind = "create" =>
                             call'[a] = None
<1>1. ASSUME NEW a \in Actor, Start(a)
      PROVE  created' = created \/ created = "no"
  <2>1. PICK c \in Call :
           /\ May(a, c)
           /\ created' = IF c.kind = "create" THEN "begun" ELSE created
    BY <1>1 DEF Start
  <2> QED
    BY <2>1 DEF May
<1>2. ASSUME NEW a \in Actor, Answer(a)
      PROVE  \/ created' = created
             \/ /\ created' = "yes"
                /\ \A b \in Actor :
                      call[b] # None /\ call[b].kind = "create" =>
                         call'[b] = None
  <2>1. CASE call[a].kind = "create" /\ step[a] = 2
    <3>1. created' = "yes" /\ call[a] # None
      BY <1>2, <2>1 DEF Answer
    <3>2. Len(Program(call[a])) = 2
      BY <2>1, <3>1, Commands DEF Length
    <3>3. Leave(a)
      BY <1>2, <2>1, <3>2 DEF Answer, Advance, Ends
    <3>4. call'[a] = None
      BY <3>3 DEF Leave, TInv, TypeOK
    <3>5. \A b \in Actor : call[b] # None /\ call[b].kind = "create" => b = a
      BY <2>1, <3>1 DEF TInv, CallerInv
    <3> QED
      BY <3>1, <3>4, <3>5
  <2>2. CASE ~(call[a].kind = "create" /\ step[a] = 2)
    BY <1>2, <2>2 DEF Answer
  <2> QED
    BY <2>1, <2>2
<1>3. ASSUME NEW a \in Actor, NoAnswer(a) \/ GivesUp(a) \/ Crash(a)
      PROVE  created' = created
  BY <1>3 DEF NoAnswer, GivesUp, Crash
<1>4. ASSUME \/ \E k \in JobScoped : KeyExpires(k)
             \/ LeaderRenews
             \/ UNCHANGED vars
      PROVE  created' = created
  BY <1>4 DEF KeyExpires, LeaderRenews, historyVars, vars
<1> QED
  BY <1>1, <1>2, <1>3, <1>4 DEF Next

LEMMA OrderNext ==
    ASSUME TInv, CountInv, [Next]_vars, disturbed' = {}
    PROVE  Order'
<1>1. /\ call \in [Actor -> Call \cup {None}] /\ step \in [Actor -> 1..9]
      /\ got \in [Actor -> Answers]
      /\ created \in {"no", "begun", "yes"}
  BY DEF TInv, TypeOK
<1>2. disturbed = {} /\ Order /\ (job.exists => job'.exists)
  BY KeysNext DEF CountInv
<1>3. created' # "yes" => tiles' = {} /\ job'.count = 0
  <2> SUFFICES ASSUME created' # "yes"
               PROVE  tiles' = {} /\ job'.count = 0
    OBVIOUS
  <2>1. created # "yes"
    BY <1>2, CreatedOnce
  <2>2. \A a \in Actor : ~(call[a] # None /\ call[a].kind = "record")
    BY <1>2, <2>1 DEF Order
  <2>3. tiles' = tiles /\ job'.count = job.count
    BY <2>2, KeysNext
  <2> QED
    BY <1>2, <2>1, <2>3 DEF Order
<1> DEFINE Fits(a) ==
        call[a] # None =>
            /\ call[a].kind = "create" => created = "begun"
            /\ call[a].kind = "record" => created = "yes"
            /\ call[a].kind = "nuclear" =>
                  step[a] <= 3 /\ (got[a].hash.exists => job.exists)
<1>4. ASSUME NEW a \in Actor
      PROVE  Fits(a)'
  <2>1. Fits(a)
    BY <1>2 DEF Order
  <2>2. CASE call'[a] = call[a] /\ step'[a] = step[a] /\ got'[a] = got[a]
    <3> SUFFICES ASSUME call[a] # None
                 PROVE  Fits(a)'
      BY <2>2
    <3>1. call[a].kind = "create" => created' = "begun"
      <4>1. created = "begun" /\ call[a].kind = "create" =>
               created' = "begun" \/ call'[a] = None
        BY <1>2, CreatedOnce
      <4> QED
        BY <2>1, <2>2, <4>1
    <3>2. call[a].kind = "record" => created' = "yes"
      BY <1>2, <2>1, CreatedOnce
    <3> QED
      BY <1>2, <2>1, <2>2, <3>1, <3>2
  <2>3. ASSUME Start(a)
        PROVE  Fits(a)'
    <3>1. PICK c \in Call :
             /\ call[a] = None /\ May(a, c)
             /\ call' = [call EXCEPT ![a] = c]
             /\ created' = IF c.kind = "create" THEN "begun" ELSE created
      BY <2>3 DEF Start
    <3>2. step'[a] = 1 /\ got'[a] = Nothing /\ call'[a] = c
      BY <1>1, <2>3, <3>1 DEF Start, TInv, Placed, Idle
    <3> QED
      BY <3>1, <3>2 DEF May, Nothing, NoHash
  <2>4. ASSUME Answer(a), Going(a)
        PROVE  Fits(a)'
    <3>1. /\ call'[a] = call[a] /\ call[a] # None
          /\ step'[a] = Following(a, Reply(a)) /\ got'[a] = Reply(a)
          /\ ~Ends(a, Reply(a))
      BY <1>1, <2>4 DEF Answer, Going
    <3>2. call[a].kind = "create" => created' = "begun"
      <4>1. created = "begun" /\ call[a].kind = "create" =>
               created' = "begun" \/ call'[a] = None
        BY <1>2, <3>1, CreatedOnce
      <4> QED
        BY <2>1, <3>1, <4>1
    <3>3. call[a].kind = "record" => created' = "yes"
      BY <1>2, <2>1, <3>1, CreatedOnce
    <3>4. ASSUME call[a].kind = "nuclear"
          PROVE  step'[a] <= 3 /\ (Reply(a).hash.exists => job'.exists)
      <4>1. step[a] \in 1..3 /\ NuclearLine(call[a], step[a])
        <5>1. NuclearLine(call[a], step[a])
          BY <3>1, <3>4, Commands DEF WriteLine, RecordLine, BareLine, Line
        <5>2. step[a] <= 3 /\ step[a] \in 1..9
          BY <1>1, <2>1, <3>1, <3>4
        <5> QED
          BY <5>1, <5>2
      <4>2. CASE step[a] = 3
        <5>1. Current(a).name = "FLUSHDB"
          BY <3>1, <4>1, <4>2, Commands DEF NuclearLine, Line, Cmd
        <5>2. Delete(a) /\ Reply(a).hash = got[a].hash
          <6>1. Delete(a)
            BY <2>4, <5>1 DEF Answer, Execute, HSet, Add, Counting, Expire, Read
          <6> QED
            BY <3>1, <5>1, <6>1, ReplyIs
        <5>3. Reply(a).hash.exists
          BY <3>1, <3>4, <4>2 DEF Ends
        <5>4. job.exists
          BY <2>1, <3>1, <3>4, <5>2, <5>3
        <5> QED
          BY <3>1, <3>4, <5>2, <5>4, Flushes
      <4>3. CASE step[a] = 2
        <5>1. step'[a] = 3
          BY <3>1, <3>4, <4>3 DEF Following
        <5>2. Current(a).name = "HGETALL"
          BY <3>1, <4>1, <4>3, Commands DEF NuclearLine, Line, Cmd
        <5>3. Reply(a) = [got[a] EXCEPT !.hash = job] /\ got[a] \in Answers
          BY <1>1, <3>1, <5>2, ReplyIs
        <5>4. Reply(a).hash = job
          BY <5>3 DEF Answers
        <5> QED
          BY <1>2, <5>1, <5>4
      <4>4. CASE step[a] = 1
        <5>1. step'[a] <= 3
          BY <3>1, <3>4, <4>4 DEF Following
        <5>2. Current(a).name = "SCAN"
          BY <3>1, <4>1, <4>4, Commands DEF NuclearLine, Line, Cmd
        <5>3. Reply(a).hash = got[a].hash
          BY <3>1, <5>2, ReplyIs
        <5> QED
          BY <1>2, <2>1, <3>1, <3>4, <5>1, <5>3
      <4> QED
        BY <4>1, <4>2, <4>3, <4>4
    <3> QED
      BY <3>1, <3>2, <3>3, <3>4
  <2>5. CASE call'[a] = None
    BY <2>5
  <2>6. \/ call'[a] = call[a] /\ step'[a] = step[a] /\ got'[a] = got[a]
        \/ call'[a] = None \/ Start(a) \/ (Answer(a) /\ Going(a))
    <3>1. ASSUME NEW b \in Actor, Start(b)
          PROVE  \/ call'[a] = call[a] /\ step'[a] = step[a] /\ got'[a] = got[a]
                 \/ Start(a)
      BY <1>1, <3>1 DEF Start
    <3>2. ASSUME NEW b \in Actor, Leave(b)
          PROVE  \/ call'[a] = call[a] /\ step'[a] = step[a] /\ got'[a] = got[a]
                 \/ call'[a] = None
      BY <1>1, <3>2 DEF Leave
    <3>3. ASSUME NEW b \in Actor, Answer(b)
          PROVE  \/ call'[a] = call[a] /\ step'[a] = step[a] /\ got'[a] = got[a]
                 \/ Leave(b) \/ (Answer(a) /\ Going(a))
      BY <1>1, <3>3 DEF Answer, Advance, Going
    <3>4. ASSUME NEW b \in Actor, NoAnswer(b)
          PROVE  call'[a] = call[a] /\ step'[a] = step[a] /\ got'[a] = got[a]
      BY <3>4 DEF NoAnswer, callVars
    <3>5. ASSUME NEW b \in Actor, GivesUp(b) \/ Crash(b)
          PROVE  Leave(b)
      BY <3>5 DEF GivesUp, Raise, Crash
    <3>6. ASSUME \/ \E k \in JobScoped : KeyExpires(k)
                 \/ LeaderRenews
                 \/ UNCHANGED vars
          PROVE  call'[a] = call[a] /\ step'[a] = step[a] /\ got'[a] = got[a]
      BY <3>6 DEF KeyExpires, LeaderRenews, callVars, vars
    <3> QED
      BY <3>1, <3>2, <3>3, <3>4, <3>5, <3>6 DEF Next
  <2> QED
    BY <2>2, <2>3, <2>4, <2>5, <2>6
<1> QED
  BY <1>3, <1>4 DEF Order

\* The listener's calls, as far as the counter goes: what it has executed, and
\* where it is then.
LEMMA ListenerNext ==
    ASSUME TInv, CountInv, NEW a \in Actor, a = "listener", call[a] # None,
           Answer(a), disturbed' = {}
    PROVE  \/ /\ Storing(a) /\ Uncounted = 0
              /\ Uncounted' = IF call[a].tile \notin tiles THEN 1 ELSE 0
           \/ Tallying(a) /\ Uncounted = 1 /\ Uncounted' = 0
           \/ ~Storing(a) /\ ~Tallying(a) /\ Uncounted' = Uncounted
<1>1. /\ call \in [Actor -> Call \cup {None}] /\ step \in [Actor -> 1..9]
      /\ got \in [Actor -> Answers]
  BY DEF TInv, TypeOK
<1>2. /\ call[a].kind = "record" => RecordLine(call[a], step[a])
      /\ Len(Program(call[a])) = Length(call[a])
  BY Commands DEF WriteLine, BareLine, NuclearLine, Line
<1>3. CASE call[a].kind = "record"
  <2>1. step[a] \in 1..9 /\ Length(call[a]) = 9
    BY <1>1, <1>3 DEF Length
  <2>2. CASE Going(a)
    <3>1. /\ step'[a] = Following(a, Reply(a)) /\ got'[a] = Reply(a)
          /\ step[a] # 9
      BY <1>1, <1>2, <2>1, <2>2 DEF Going, Ends
    <3>2. CASE step[a] = 1
      <4>1. Current(a) = Cmd("HSET", "tiles")
        BY <1>2, <1>3, <3>2, Commands DEF RecordLine, Line
      <4>2. /\ Reply(a) = [got[a] EXCEPT !.new = call[a].tile \notin tiles]
            /\ got[a] \in Answers
        BY <1>1, <4>1, ReplyIs
      <4>3. /\ call[a].tile \notin tiles => got'[a].new = TRUE
            /\ call[a].tile \in tiles => got'[a].new = FALSE
        BY <3>1, <4>2 DEF Answers
      <4>4. step'[a] = 2
        BY <1>3, <3>1, <3>2 DEF Following
      <4> QED
        BY <1>3, <3>1, <3>2, <4>3, <4>4 DEF Uncounted, Storing
    <3>3. CASE step[a] = 2
      <4>1. Current(a) = Cmd("EXPIRE", "tiles")
        BY <1>2, <1>3, <3>3, Commands DEF RecordLine, Line
      <4>2. Reply(a).new = got[a].new
        BY <4>1, ReplyIs DEF Cmd
      <4>3. step'[a] = IF got[a].new THEN 3 ELSE 7
        BY <1>3, <3>1, <3>3, <4>2 DEF Following
      <4> QED
        BY <3>1, <3>3, <4>3 DEF Uncounted, Storing, Tallying
    <3>4. CASE step[a] \in {3, 4, 5, 6, 7, 8}
      <4>1. step'[a] = step[a] + 1
        BY <1>3, <3>1, <3>4 DEF Following
      <4> QED
        BY <1>3, <3>1, <3>4, <4>1 DEF Uncounted, Storing, Tallying
    <3> QED
      BY <2>1, <3>1, <3>2, <3>3, <3>4
  <2>3. CASE ~Going(a)
    <3>1. Leave(a) /\ Ends(a, Reply(a))
      BY <2>3 DEF Answer, Advance, Going
    <3>2. step[a] \in {8, 9}
      BY <1>2, <1>3, <2>1, <3>1 DEF Ends
    <3>3. step'[a] = 1
      BY <1>1, <3>1 DEF Leave
    <3> QED
      BY <3>2, <3>3 DEF Uncounted, Storing, Tallying
  <2> QED
    BY <2>2, <2>3
<1>4. call[a].kind = "record"
  BY DEF TInv, CallerInv
<1> QED
  BY <1>3, <1>4

\* How the two numbers change, measured by the failures.
Shift(t, t1, c, c1, u, u1, f, f1) ==
    /\ c1 + u1 + t + f <= c + u + t1 + f1
    /\ c + u + t1 + f <= c1 + u1 + t + f1

LEMMA BalanceNext ==
    ASSUME TInv, CountInv, [Next]_vars, disturbed' = {}
    PROVE  Balance'
<1>1. /\ job \in Hash /\ job' \in Hash /\ tiles \in SUBSET Tile
      /\ tiles' \in SUBSET Tile
      /\ call \in [Actor -> Call \cup {None}] /\ step \in [Actor -> 1..9]
      /\ got \in [Actor -> Answers]
  BY TypeInductive DEF TInv, TypeOK
<1>2. faults \in Nat /\ faults' \in Nat /\ faults <= faults'
  BY ClientType
<1>3. disturbed = {} /\ Balance
  BY KeysNext DEF CountInv
<1>4. job.count \in Nat /\ job'.count \in Nat
  BY <1>1 DEF Hash
<1>5. /\ IsFiniteSet(tiles)
      /\ Cardinality(tiles) \in Nat
      /\ \A t \in Tile : Cardinality(tiles \cup {t}) =
            IF t \in tiles THEN Cardinality(tiles) ELSE Cardinality(tiles) + 1
  BY <1>1, JobKeysAssumption, FS_Subset, FS_CardinalityType, FS_AddElement
<1>6. Uncounted \in {0, 1} /\ Uncounted' \in {0, 1}
  BY DEF Uncounted
<1> DEFINE Shifted ==
        Shift(Cardinality(tiles), Cardinality(tiles'), job.count, job'.count,
              Uncounted, Uncounted', faults, faults')
<1>7. ASSUME tiles' = tiles, job'.count = job.count, Uncounted' = Uncounted
      PROVE  Shifted
  BY <1>2, <1>4, <1>5, <1>6, <1>7 DEF Shift
<1>8. ASSUME NEW a \in Actor, a # "listener",
             Start(a) \/ Answer(a) \/ NoAnswer(a) \/ GivesUp(a) \/ Crash(a)
      PROVE  Shifted
  <2>1. step'["listener"] = step["listener"] /\ got'["listener"] = got["listener"]
    <3>1. "listener" \in Actor
      BY JobKeysAssumption
    <3>2. CASE Start(a) \/ NoAnswer(a)
      BY <3>2 DEF Start, NoAnswer, callVars
    <3>3. CASE Answer(a)
      BY <1>1, <1>8, <3>1, <3>3 DEF Answer, Advance, Leave
    <3>4. CASE GivesUp(a) \/ Crash(a)
      BY <1>1, <1>8, <3>1, <3>4 DEF GivesUp, Raise, Crash, Leave
    <3> QED
      BY <1>8, <3>2, <3>3, <3>4
  <2>2. tiles' = tiles /\ job'.count = job.count
    <3>1. CASE UNCHANGED <<redisVars, disturbed>>
      BY <3>1 DEF redisVars
    <3>2. CASE call[a] # None /\ RedisOp(a)
      <4>1. call[a].kind # "record"
        BY <1>8, <3>2 DEF TInv, CallerInv
      <4> QED
        BY <3>2, <4>1, CountEffect DEF Storing, Tallying
    <3> QED
      BY <1>8, <3>1, <3>2 DEF Start, Answer, NoAnswer, Executed, Execute, GivesUp,
         Crash, RedisOp
  <2>3. Uncounted' = Uncounted
    BY <2>1 DEF Uncounted
  <2> QED
    BY <1>7, <2>2, <2>3
<1>9. ASSUME NEW a \in Actor, a = "listener", Answer(a)
      PROVE  Shifted
  <2>1. call[a] # None /\ RedisOp(a)
    BY <1>9 DEF Answer, Execute, RedisOp
  <2>2. /\ tiles' = IF Storing(a) THEN tiles \cup {call[a].tile} ELSE tiles
        /\ job'.count = IF Tallying(a) THEN job.count + 1 ELSE job.count
    BY <2>1, CountEffect
  <2>3. ~(Storing(a) /\ Tallying(a))
    BY DEF Storing, Tallying
  <2>4. call[a].tile \in Tile
    BY <2>1, Commands DEF Call
  <2>5. CASE /\ Storing(a) /\ Uncounted = 0
             /\ Uncounted' = IF call[a].tile \notin tiles THEN 1 ELSE 0
    <3>1. /\ Cardinality(tiles') = Cardinality(tiles) + Uncounted'
          /\ job'.count = job.count
      BY <1>5, <2>2, <2>3, <2>4, <2>5
    <3> QED
      BY <1>2, <1>4, <1>5, <1>6, <2>5, <3>1 DEF Shift
  <2>6. CASE Tallying(a) /\ Uncounted = 1 /\ Uncounted' = 0
    <3>1. tiles' = tiles /\ job'.count = job.count + 1
      BY <2>2, <2>3, <2>6
    <3> QED
      BY <1>2, <1>4, <1>5, <2>6, <3>1 DEF Shift
  <2>7. CASE ~Storing(a) /\ ~Tallying(a) /\ Uncounted' = Uncounted
    BY <1>7, <2>2, <2>7
  <2> QED
    BY <1>9, <2>1, <2>5, <2>6, <2>7, ListenerNext
<1>10. ASSUME NEW a \in Actor, a = "listener",
              NoAnswer(a) \/ GivesUp(a) \/ Crash(a)
       PROVE  Shifted
  <2>1. faults' = faults + 1 /\ call[a] # None
    BY <1>10 DEF NoAnswer, Retried, RetryTimeout, RetryConnection, GivesUp, Raised,
       RaiseTimeout, RaiseConnection, Crash, Fault
  <2>2. call[a].kind = "record" /\ call[a].tile \in Tile
    BY <1>10, <2>1, Commands DEF TInv, CallerInv, Call
  <2>3. \/ UNCHANGED <<step, got>>
        \/ step'[a] = 1
    BY <1>1, <1>10 DEF NoAnswer, callVars, GivesUp, Raise, Crash, Leave
  <2>4. Uncounted' = Uncounted \/ Uncounted' = 0
    BY <1>10, <2>3 DEF Uncounted
  <2>5. CASE tiles' = tiles /\ job'.count = job.count
    BY <1>4, <1>5, <1>6, <2>1, <2>4, <2>5, <1>2 DEF Shift
  <2>6. CASE Storing(a) /\ RedisOp(a)
    <3>1. Uncounted = 0 /\ Uncounted' = 0
      BY <1>10, <2>4, <2>6 DEF Storing, Uncounted
    <3>2. tiles' = tiles \cup {call[a].tile} /\ job'.count = job.count
      BY <2>1, <2>6, CountEffect DEF Storing, Tallying
    <3>3. \/ Cardinality(tiles') = Cardinality(tiles)
          \/ Cardinality(tiles') = Cardinality(tiles) + 1
      BY <1>5, <2>2, <3>2
    <3> QED
      BY <1>2, <1>4, <1>5, <2>1, <3>1, <3>2, <3>3 DEF Shift
  <2>7. CASE Tallying(a) /\ RedisOp(a)
    <3>1. Uncounted = 1
      BY <1>10, <2>7 DEF Tallying, Uncounted
    <3>2. tiles' = tiles /\ job'.count = job.count + 1
      BY <2>1, <2>7, CountEffect DEF Storing, Tallying
    <3> QED
      BY <1>2, <1>4, <1>5, <1>6, <2>1, <3>1, <3>2 DEF Shift
  <2>8. CASE RedisOp(a)
    BY <2>1, <2>5, <2>6, <2>7, <2>8, CountEffect
  <2>9. CASE UNCHANGED <<redisVars, disturbed>>
    BY <2>5, <2>9 DEF redisVars
  <2> QED
    BY <1>10, <2>8, <2>9 DEF NoAnswer, Executed, Execute, GivesUp, Crash, RedisOp
<1>11. ASSUME NEW a \in Actor, Start(a)
       PROVE  Shifted
  <2>1. UNCHANGED <<redisVars, step, got>>
    BY <1>11 DEF Start
  <2> QED
    BY <1>7, <2>1 DEF Uncounted, redisVars
<1>12. ASSUME \/ \E k \in JobScoped : KeyExpires(k)
              \/ LeaderRenews
              \/ UNCHANGED vars
       PROVE  Shifted
  <2>1. UNCHANGED <<step, got>>
    BY <1>12 DEF KeyExpires, LeaderRenews, callVars, vars
  <2>2. tiles' = tiles /\ job' = job
    BY <1>12, OtherEffect DEF KeyExpires, vars, historyVars
  <2> QED
    BY <1>7, <2>1, <2>2 DEF Uncounted
<1>13. Shifted
  <2>1. ASSUME NEW a \in Actor,
               Start(a) \/ Answer(a) \/ NoAnswer(a) \/ GivesUp(a) \/ Crash(a)
        PROVE  Shifted
    BY <1>8, <1>9, <1>10, <1>11, <2>1
  <2> QED
    BY <1>12, <2>1 DEF Next
<1>14. Cardinality(tiles') \in Nat
  BY <1>1, JobKeysAssumption, FS_Subset, FS_CardinalityType
<1> QED
  BY <1>2, <1>3, <1>4, <1>5, <1>6, <1>13, <1>14 DEF Balance, Shift

\* As long as nobody has deleted the job's keys, what the results counter misses
\* or has too much is no more than what failures of Redis and crashes explain: a
\* duplicate is never counted (app/jobstore.py:229-263).
THEOREM CountTheorem == Spec => []CountExplained
<1>1. Init => CountInv
  <2> SUFFICES ASSUME Init
               PROVE  Order /\ Balance
    BY DEF CountInv
  <2>1. Order
    BY DEF Init, Order, NoHash
  <2>2. Cardinality(tiles) = 0 /\ faults = 0 /\ job.count = 0
    BY FS_EmptySet DEF Init, ClientInit, NoHash
  <2>3. Uncounted = 0
    BY JobKeysAssumption DEF Init, Uncounted
  <2> QED
    BY <2>1, <2>2, <2>3 DEF Balance
<1>2. TInv /\ CountInv /\ [Next]_vars => CountInv'
  BY OrderNext, BalanceNext DEF CountInv
<1>3. TInv /\ CountInv => CountExplained
  <2> SUFFICES ASSUME TInv, CountInv, disturbed = {},
                      call["listener"] = None \/ step["listener"] = 1
               PROVE  /\ job.count <= Cardinality(tiles) + faults
                      /\ Cardinality(tiles) <= job.count + faults
    BY DEF CountExplained
  <2>1. step["listener"] = 1
    BY JobKeysAssumption DEF TInv, Placed, Idle
  <2>2. Uncounted = 0
    BY <2>1 DEF Uncounted
  <2>3. job.count \in Nat /\ faults \in Nat
    BY ClientAssumption DEF TInv, TypeOK, ClientTypeOK, Hash
  <2> QED
    BY <2>2, <2>3 DEF CountInv, Balance
<1> QED
  BY Typed, <1>1, <1>2, <1>3, PTL DEF Spec

----------------------------------------------------------------------------
(* The nuclear clean-up.                                                   *)

\* While it is at work, and nothing has failed: the job that it has found is
\* there before the flush and after the restore, then with the fields of the
\* backup, and the backup is in between.
Flushing ==
    /\ faults = 0
    /\ call["admin"] # None
    /\ call["admin"].kind = "nuclear"
    /\ "job" \in got["admin"].keys

NuclearInv ==
    Flushing =>
        /\ step["admin"] \in {2, 3, 5} => job.exists
        /\ step["admin"] >= 3 => got["admin"].hash.exists
        /\ step["admin"] = 5 /\ got["admin"].hash.complete => job.complete

\* Nobody but the admin deletes the hash of a job, or a field of it.
LEMMA HashStays ==
    ASSUME TInv, NEW a \in Actor, a # "admin", call[a] # None, RedisOp(a),
           job.exists
    PROVE  job'.exists /\ (job.complete => job'.complete)
<1>1. job \in Hash /\ got[a] \in Answers
  BY DEF TInv, TypeOK
<1>2. call[a].kind \in {"create", "failed", "record", "attempt", "abandon",
                        "status", "delete"}
  BY Commands DEF TInv, CallerInv, Call, Kind
<1>3. CASE HSet(a)
  <2>1. CASE Current(a).key = "tiles"
    BY <1>3, <2>1 DEF HSet
  <2>2. CASE Current(a).key # "tiles"
    <3>1. job' \in Hashed(a)
      BY <1>3, <2>2 DEF HSet
    <3>2. call[a].kind \in {"create", "status", "record"}
      BY <1>2, <1>3, <2>2, CurrentIs DEF HSet
    <3>3. CASE call[a].kind = "create"
      BY <3>1, <3>3 DEF Hashed, NewHash
    <3>4. CASE call[a].kind # "create"
      <4>1. PICK open \in {job.open, FALSE} :
               job' = [job EXCEPT !.exists = TRUE, !.open = open]
        <5>1. CASE call[a].kind = "record"
          BY <3>1, <5>1 DEF Hashed
        <5>2. CASE call[a].kind = "status"
          BY <3>1, <5>2 DEF Hashed
        <5> QED
          BY <3>2, <3>4, <5>1, <5>2
      <4> QED
        BY <1>1, <4>1 DEF Hash
    <3> QED
      BY <3>3, <3>4
  <2> QED
    BY <2>1, <2>2
<1>4. CASE Add(a)
  <2>1. \/ job' = job
        \/ job' = [job EXCEPT !.exists = TRUE]
        \/ job' = [job EXCEPT !.exists = TRUE, !.count = @ + 1]
    BY <1>4 DEF Add
  <2>2. CASE job' = [job EXCEPT !.exists = TRUE]
    BY <1>1, <2>2, HashIs DEF Hash
  <2>3. CASE job' = [job EXCEPT !.exists = TRUE, !.count = @ + 1]
    BY <1>1, <2>3, HashIs DEF Hash
  <2> QED
    BY <2>1, <2>2, <2>3
<1>5. CASE Expire(a) \/ Read(a)
  BY <1>5 DEF Expire, Read, redisVars
<1>6. CASE Delete(a)
  <2>1. call[a].kind = "delete"
    <3>1. Current(a).name \in {"DEL", "FLUSHDB"}
      BY <1>6 DEF Delete
    <3>2. CASE WriteLine(call[a], step[a])
      <4>1. \E name \in {"HSET", "INCR", "SADD", "EXPIRE"} : \E key :
               Program(call[a])[step[a]] = Cmd(name, key)
        BY <3>2, Zenon DEF WriteLine, Line
      <4>2. Current(a).name \in {"HSET", "INCR", "SADD", "EXPIRE"}
        BY <4>1 DEF Current, Cmd
      <4> QED
        BY <3>1, <4>2
    <3>3. CASE RecordLine(call[a], step[a])
      BY <3>1, <3>3, Commands DEF RecordLine, Line, Cmd
    <3>4. CASE BareLine(call[a], step[a])
      BY <1>2, <3>1, <3>4, Commands DEF BareLine, Line, Cmd
    <3>5. CASE NuclearLine(call[a], step[a])
      BY <1>2, <3>5 DEF NuclearLine, Line
    <3> QED
      BY <3>2, <3>3, <3>4, <3>5, Commands
  <2>2. "job" \notin Targets(a)
    BY <2>1, JobKeysAssumption DEF Targets
  <2>3. job' = job
    BY <1>6, <2>2 DEF Delete, Remove
  <2> QED
    BY <2>3
<1> QED
  BY <1>3, <1>4, <1>5, <1>6 DEF RedisOp

\* What steps there are without a failure.
LEMMA FaultlessNext ==
    ASSUME TInv, [Next]_vars, faults' = 0
    PROVE  /\ faults = 0
           /\ \/ \E a \in Actor : Start(a) \/ Answer(a)
              \/ LeaderRenews
              \/ UNCHANGED vars
<1>1. faults \in Nat /\ faults <= faults'
  BY ClientType
<1>2. faults = 0
  BY <1>1
<1>3. ~Fault
  BY <1>2 DEF Fault
<1>4. ASSUME NEW a \in Actor, NoAnswer(a) \/ GivesUp(a) \/ Crash(a)
      PROVE  FALSE
  BY <1>3, <1>4 DEF NoAnswer, Retried, RetryTimeout, RetryConnection, GivesUp,
     Raised, RaiseTimeout, RaiseConnection, Crash
<1>5. ~\E k \in JobScoped : KeyExpires(k)
  BY <1>3 DEF KeyExpires
<1> QED
  BY <1>2, <1>4, <1>5 DEF Next

\* The clean-up itself: what it does when it is answered.
LEMMA CleanupNext ==
    ASSUME TInv, NuclearInv, Flushing', faults = 0, Answer("admin")
    PROVE  /\ step'["admin"] \in {2, 3, 5} => job'.exists
           /\ step'["admin"] >= 3 => got'["admin"].hash.exists
           /\ step'["admin"] = 5 /\ got'["admin"].hash.complete => job'.complete
<1> DEFINE a == "admin"
<1>1. /\ a \in Actor /\ call[a] # None /\ Execute(a) /\ Advance(a, Reply(a))
      /\ step[a] \in 1..9 /\ got[a] \in Answers
      /\ call \in [Actor -> Call \cup {None}] /\ step \in [Actor -> 1..9]
      /\ got \in [Actor -> Answers]
  BY JobKeysAssumption DEF Answer, TInv, TypeOK
<1>2. Going(a)
  BY <1>1 DEF Advance, Going, Leave, Flushing
<1>3. /\ call'[a] = call[a] /\ got'[a] = Reply(a)
      /\ step'[a] = Following(a, Reply(a)) /\ ~Ends(a, Reply(a))
  BY <1>1, <1>2 DEF Going
<1>4. call[a].kind = "nuclear" /\ "job" \in Reply(a).keys
  BY <1>3 DEF Flushing
<1>5. NuclearLine(call[a], step[a]) /\ Len(Program(call[a])) = 5
  BY <1>1, <1>4, Commands
     DEF WriteLine, RecordLine, BareLine, Line, Length
<1>6. step[a] \in {1, 2, 3, 4}
  <2>1. step[a] # 5
    BY <1>3, <1>5 DEF Ends
  <2> QED
    BY <1>5, <2>1 DEF NuclearLine, Line
<1>7. CASE step[a] = 1
  <2>1. Current(a).name = "SCAN"
    BY <1>1, <1>5, <1>7, Commands DEF NuclearLine, Line, Cmd
  <2>2. Reply(a).keys = LiveKeys
    <3>1. Reply(a) = [got[a] EXCEPT !.keys = LiveKeys]
      BY <1>1, <2>1, ReplyIs
    <3> QED
      BY <1>1, <3>1 DEF Answers
  <2>3. job.exists
    BY <1>4, <2>2, JobKeysAssumption DEF LiveKeys, Live
  <2>4. job' = job
    BY <1>1, <2>1 DEF Execute, HSet, Add, Counting, Expire, Delete, Read, redisVars
  <2>5. step'[a] = 2
    BY <1>3, <1>4, <1>7 DEF Following
  <2> QED
    BY <2>3, <2>4, <2>5
<1>8. ASSUME step[a] \in {2, 3, 4}
      PROVE  /\ Flushing
             /\ step'[a] = step[a] + 1
             /\ step[a] # 1 /\ Current(a).name # "SCAN"
  <2>1. Current(a).name # "SCAN"
    BY <1>1, <1>5, <1>8, Commands DEF NuclearLine, Line, Cmd
  <2>2. Reply(a).keys = got[a].keys
    BY <1>1, <2>1, ReplyIs
  <2> QED
    BY <1>1, <1>3, <1>4, <1>8, <2>1, <2>2 DEF Flushing, Following
<1>9. CASE step[a] = 2
  <2>1. Current(a).name = "HGETALL"
    BY <1>1, <1>5, <1>9, Commands DEF NuclearLine, Line, Cmd
  <2>2. Reply(a).hash = job
    <3>1. Reply(a) = [got[a] EXCEPT !.hash = job]
      BY <1>1, <2>1, ReplyIs
    <3> QED
      BY <1>1, <3>1 DEF Answers
  <2>3. job' = job
    BY <1>1, <2>1 DEF Execute, HSet, Add, Counting, Expire, Delete, Read, redisVars
  <2>4. job.exists
    BY <1>8, <1>9 DEF NuclearInv
  <2> QED
    BY <1>3, <2>2, <2>3, <2>4
<1>10. CASE step[a] = 3
  <2>1. Current(a).name = "FLUSHDB"
    BY <1>1, <1>5, <1>10, Commands DEF NuclearLine, Line, Cmd
  <2>2. Reply(a).hash = got[a].hash
    BY <1>1, <2>1, ReplyIs
  <2>3. got[a].hash.exists /\ step'[a] = 4
    BY <1>8, <1>10 DEF NuclearInv
  <2> QED
    BY <1>3, <2>2, <2>3
<1>11. CASE step[a] = 4
  <2>1. Current(a) = Cmd("HSET", "job")
    BY <1>1, <1>5, <1>11, Commands DEF NuclearLine, Line
  <2>2. Reply(a).hash = got[a].hash
    BY <1>1, <2>1, ReplyIs DEF Cmd
  <2>3. got[a].hash.exists
    BY <1>8, <1>11 DEF NuclearInv
  <2>4. job' \in Hashed(a)
    BY <1>1, <2>1 DEF Execute, HSet, Add, Counting, Expire, Delete, Read, Cmd
  <2>5. job' = [got[a].hash EXCEPT !.complete = @ \/ job.complete]
    BY <1>1, <1>3, <1>4, <2>4 DEF Hashed
  <2>6. job'.exists /\ (got[a].hash.complete => job'.complete)
    BY <1>1, <2>3, <2>5 DEF Answers, Hash
  <2> QED
    BY <1>3, <2>2, <2>3, <2>6
<1> QED
  BY <1>6, <1>7, <1>9, <1>10, <1>11

LEMMA NuclearNext ==
    ASSUME TInv, NuclearInv, [Next]_vars
    PROVE  NuclearInv'
<1> SUFFICES ASSUME Flushing'
             PROVE  /\ step'["admin"] \in {2, 3, 5} => job'.exists
                    /\ step'["admin"] >= 3 => got'["admin"].hash.exists
                    /\ step'["admin"] = 5 /\ got'["admin"].hash.complete =>
                          job'.complete
  BY DEF NuclearInv
<1>1. /\ faults = 0
      /\ \/ \E a \in Actor : Start(a) \/ Answer(a)
         \/ LeaderRenews
         \/ UNCHANGED vars
  BY FaultlessNext DEF Flushing
<1>2. /\ call \in [Actor -> Call \cup {None}] /\ step \in [Actor -> 1..9]
      /\ got \in [Actor -> Answers] /\ "admin" \in Actor
  BY JobKeysAssumption DEF TInv, TypeOK
<1>3. CASE /\ call'["admin"] = call["admin"] /\ step'["admin"] = step["admin"]
           /\ got'["admin"] = got["admin"]
           /\ job.exists => job'.exists /\ (job.complete => job'.complete)
  BY <1>1, <1>3 DEF NuclearInv, Flushing
<1>4. ASSUME NEW a \in Actor, Start(a), a = "admin"
      PROVE  FALSE
  <2>1. got'[a] = Nothing
    BY <1>4 DEF Start, TInv, Placed, Idle
  <2> QED
    BY <1>4, <2>1 DEF Flushing, Nothing
<1>5. ASSUME NEW a \in Actor, Start(a), a # "admin"
      PROVE  /\ call'["admin"] = call["admin"] /\ step'["admin"] = step["admin"]
             /\ got'["admin"] = got["admin"]
             /\ job.exists => job'.exists /\ (job.complete => job'.complete)
  BY <1>2, <1>5 DEF Start, redisVars
<1>6. ASSUME NEW a \in Actor, Answer(a), a # "admin"
      PROVE  /\ call'["admin"] = call["admin"] /\ step'["admin"] = step["admin"]
             /\ got'["admin"] = got["admin"]
             /\ job.exists => job'.exists /\ (job.complete => job'.complete)
  <2>1. /\ call'["admin"] = call["admin"] /\ step'["admin"] = step["admin"]
        /\ got'["admin"] = got["admin"]
    BY <1>2, <1>6 DEF Answer, Advance, Leave
  <2>2. call[a] # None /\ RedisOp(a)
    BY <1>6 DEF Answer, Execute, RedisOp
  <2> QED
    BY <1>6, <2>1, <2>2, HashStays
<1>7. CASE LeaderRenews \/ UNCHANGED vars
  BY <1>3, <1>7 DEF LeaderRenews, callVars, redisVars, vars
<1> QED
  BY <1>1, <1>3, <1>4, <1>5, <1>6, <1>7, CleanupNext

\* An admin's nuclear clean-up keeps the jobs it has found, with all their fields, whatever is written
\* between its backup, its flush and its restore, if none of its commands has
\* failed and the job has not expired (master/admin_routes.py:257-278).
THEOREM NuclearTheorem == Spec => NuclearKeepsJobs
<1> DEFINE Kept ==
        /\ call["admin"] # None /\ call["admin"].kind = "nuclear"
        /\ step["admin"] >= 3 /\ call'["admin"] = None
        /\ "job" \in got["admin"].keys
        /\ faults = 0 /\ faults' = 0
        => /\ job'.exists
           /\ got["admin"].hash.complete => job'.complete
<1>1. Init => NuclearInv
  BY JobKeysAssumption DEF Init, NuclearInv, Flushing
<1>2. TInv /\ NuclearInv /\ [Next]_vars => NuclearInv'
  BY NuclearNext
<1>3. TInv /\ NuclearInv /\ [Next]_vars => [Kept]_vars
  <2> SUFFICES ASSUME TInv, NuclearInv, [Next]_vars, Flushing, step["admin"] >= 3,
                      call'["admin"] = None, faults' = 0
               PROVE  /\ job'.exists
                      /\ got["admin"].hash.complete => job'.complete
    BY DEF Flushing
  <2>1. /\ call \in [Actor -> Call \cup {None}] /\ "admin" \in Actor
        /\ call["admin"] # None /\ call["admin"].kind = "nuclear"
    BY JobKeysAssumption DEF TInv, TypeOK, Flushing
  <2>2. Answer("admin")
    <3>1. ASSUME NEW a \in Actor, a # "admin", Start(a) \/ Answer(a)
          PROVE  FALSE
      BY <2>1, <3>1 DEF Start, Answer, Advance, Leave
    <3>2. ~Start("admin")
      BY <2>1 DEF Start
    <3>3. ~(LeaderRenews \/ UNCHANGED vars)
      BY <2>1 DEF LeaderRenews, callVars, vars
    <3> QED
      BY <3>1, <3>2, <3>3, FaultlessNext
  <2>3. Ends("admin", Reply("admin")) /\ Execute("admin")
    BY <2>1, <2>2 DEF Answer, Advance
  <2>4. /\ NuclearLine(call["admin"], step["admin"])
        /\ Len(Program(call["admin"])) = 5
    BY <2>1, Commands DEF WriteLine, RecordLine, BareLine, Line, Length
  <2>5. CASE step["admin"] = 5
    <3>1. Current("admin").name = "EXPIRE"
      BY <2>1, <2>4, <2>5, Commands DEF NuclearLine, Line, Cmd
    <3>2. job' = job
      BY <2>3, <3>1
         DEF Execute, HSet, Add, Counting, Expire, Delete, Read, redisVars
    <3> QED
      BY <2>5, <3>2 DEF NuclearInv
  <2>6. CASE step["admin"] = 3
    <3>1. Current("admin").name = "FLUSHDB"
      BY <2>1, <2>4, <2>6, Commands DEF NuclearLine, Line, Cmd
    <3>2. Reply("admin").hash = got["admin"].hash
      BY <2>1, <3>1, ReplyIs
    <3>3. ~Reply("admin").hash.exists
      BY <2>1, <2>3, <2>4, <2>6 DEF Ends
    <3> QED
      BY <2>6, <3>2, <3>3 DEF NuclearInv
  <2>7. step["admin"] \in {3, 5}
    <3>1. step["admin"] # 4
      BY <2>1, <2>3, <2>4 DEF Ends
    <3> QED
      BY <2>4, <3>1 DEF NuclearLine, Line
  <2> QED
    BY <2>5, <2>6, <2>7
<1> QED
  BY Typed, <1>1, <1>2, <1>3, PTL DEF Spec, NuclearKeepsJobs
=============================================================================
