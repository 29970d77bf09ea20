----------------------------- MODULE ConfigTable -----------------------------
(***************************************************************************)
(* The route server's configuration (config.c): a file of lines            *)
(* key = value, read into a table with open addressing and linear probing. *)
(* Values are sequences of characters, the empty one marking a free slot.  *)
(***************************************************************************)
EXTENDS Integers, Sequences, FiniteSets, FiniteSetsExt

CONSTANTS TableSize,   \* CONFIG_TB_SIZE
          Hash,        \* Hash[key]: cfg_hash, before the remainder
          NULL

\* A key and a value, neither of them empty: what strtok finds in a line.
ConfigLines == {line \in (DOMAIN Hash) \X Seq(STRING) : line[1] # "" /\ line[2] # <<>>}

ASSUME TableAssumption == /\ TableSize \in Nat \ {0}
                          /\ Hash \in [DOMAIN Hash -> Nat]
                          /\ NULL \notin Seq(STRING)

VARIABLES table,       \* table[pos]: key and value
          size,        \* the table's count of entries
          file,        \* lines of the configuration file not yet read
          seen         \* history: the lines read

configVars == <<table, size, file, seen>>

Empty == [key |-> "", value |-> <<>>]

ConfigInit(lines) == /\ table = [p \in 0..(TableSize - 1) |-> Empty] /\ size = 0
                     /\ file = lines /\ seen = <<>>

Probe(key, d) == (Hash[key] + d) % TableSize

\* strncpy with the length of the new string: the end of a longer one stays.
Overlay(new, old) == new \o SubSeq(old, Len(new) + 1, Len(old))

\* Where the loop of config_table_insert ends: at a free slot or, but not at the first
\* one, at the key itself.  The empty set is an endless loop.
Stops(t, key) ==
    {d \in 0..TableSize : \/ t[Probe(key, d)].value = <<>>
                          \/ d > 0 /\ t[Probe(key, d)].key = key}

\* Mutant: without probing.
InsertAtHash(key, value) ==
    /\ table' = [table EXCEPT ![Probe(key, 0)] = [key |-> key, value |-> value]]
    /\ size' = size + 1

Insert(key, value) ==
    /\ Stops(table, key) # {}
    /\ LET p == Probe(key, Min(Stops(table, key))) IN
       /\ table' = [table EXCEPT ![p] = [key |-> key, value |-> Overlay(value, @.value)]]
       /\ size' = IF table[p].value = <<>> THEN size + 1 ELSE size

\* config_table_find; the loop ends at a slot never used.
Find(t, key) ==
    LET ds == {d \in 0..(TableSize - 1) : t[Probe(key, d)].key \in {"", key}}
    IN IF ds = {} \/ t[Probe(key, Min(ds))].key = "" THEN NULL
       ELSE t[Probe(key, Min(ds))].value

ReadLine == /\ file # <<>>
            /\ Insert(file[1][1], file[1][2])
            /\ file' = Tail(file)
            /\ seen' = Append(seen, file[1])

-----------------------------------------------------------------------------

\* Every key read so far is found, past collisions and the end of the table; a key the
\* file names once has its own value.
ConfigFound ==
    \A i \in DOMAIN seen :
        LET key == seen[i][1] IN
        /\ Find(table, key) # NULL
        /\ (\A j \in DOMAIN seen : seen[j][1] = key => j = i) => Find(table, key) = seen[i][2]

\* A file of at most as many lines as the table has slots is read to its end.
ConfigRead == Len(seen) + Len(file) <= TableSize => <>(file = <<>>)
=============================================================================
