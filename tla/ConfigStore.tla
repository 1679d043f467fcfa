----------------------------- MODULE ConfigStore -----------------------------
(***************************************************************************)
(* server.json (shared/config) and what main does with it when it starts   *)
(* (server/main.go): load, generate the key on the first run, save, and go *)
(* on to serve.  The process may be killed between any two steps, and      *)
(* os.WriteFile truncates the file before it writes it.                    *)
(*                                                                         *)
(* A file is a function from the fields it has to their values; "setting"  *)
(* stands for what the user chooses, "token_ttl" for the fields of type    *)
(* time.Duration, which JSON can only give as a number.                    *)
(***************************************************************************)
EXTENDS Naturals

CONSTANTS Keys,         \* secrets the generator may draw
          Settings,     \* values the user may give to the setting
          MaxStarts,    \* bound: starts of the process
          MaxEdits      \* bound: edits of the file by the user

ASSUME ConfigAssumption == "" \notin Keys /\ MaxStarts \in Nat /\ MaxEdits \in Nat

VARIABLES file,         \* server.json
          stage,        \* where main is
          cfg,          \* the configuration in memory
          drawn,        \* keys that were drawn so far
          saved,        \* the key that was last completely written, or NoKey
          wrote,        \* the setting the user last wrote, or the default
          starts, edits

disk       == <<file, saved, wrote>>
configVars == <<disk, stage, cfg, drawn, starts, edits>>

NoKey  == ""
Fields == {"secret_key", "token_ttl", "setting"}

DefaultServerConfig ==
    [f \in Fields |-> CASE f = "secret_key" -> NoKey [] f = "token_ttl" -> "number" [] OTHER -> "default"]

JSON(has) == [is |-> "json", has |-> has]
Absent    == [is |-> "absent", has |-> <<>>]
Torn      == [is |-> "torn", has |-> <<>>]

(* A server.json as README.md:320-335 shows it: a duration as a text.      *)
Documented(choice) == JSON([f \in {"token_ttl", "setting"} |-> IF f = "setting" THEN choice ELSE "text"])
Plain(choice)      == JSON([f \in {"setting"} |-> choice])

ConfigInit == /\ file = Absent /\ saved = NoKey /\ wrote = "default"
              /\ stage = "down" /\ cfg = DefaultServerConfig
              /\ drawn = {} /\ starts = 0 /\ edits = 0
-----------------------------------------------------------------------------
(* The user writes a file of their own, or changes the setting in the file *)
(* that is there, while the server is down.                                *)
UserEdits ==
    /\ stage \in {"down", "refused"} /\ edits < MaxEdits
    /\ \E choice \in Settings :
          /\ wrote' = choice
          /\ \/ /\ file.is = "json"
                /\ file' = JSON([f \in DOMAIN file.has \cup {"setting"} |->
                                    IF f = "setting" THEN choice ELSE file.has[f]])
                /\ UNCHANGED saved
             \/ file' \in {Plain(choice), Documented(choice)} /\ saved' = NoKey
    /\ edits' = edits + 1
    /\ UNCHANGED <<stage, cfg, drawn, starts>>

Start == /\ stage \in {"down", "refused"} /\ starts < MaxStarts
         /\ stage' = "load"
         /\ starts' = starts + 1
         /\ UNCHANGED <<disk, cfg, drawn, edits>>

(* What json.Unmarshal accepts: all of a file, and a number for a duration.*)
Parses == file.is = "json" /\ ("token_ttl" \in DOMAIN file.has => file.has["token_ttl"] = "number")

(* A mutant: a file that cannot be parsed is as good as none.              *)
LoadForgiving ==
    /\ stage = "load"
    /\ cfg' = [f \in Fields |-> IF Parses /\ f \in DOMAIN file.has THEN file.has[f] ELSE DefaultServerConfig[f]]
    /\ stage' = "keygen"
    /\ UNCHANGED <<disk, drawn, starts, edits>>

(* A missing file gives the defaults, a missing field its default; a file  *)
(* that cannot be read, or does not parse, ends the process.               *)
LoadServerConfig ==
    /\ stage = "load"
    /\ \/ /\ file.is = "absent"
          /\ cfg' = DefaultServerConfig
          /\ stage' = "keygen"
       \/ /\ Parses
          /\ cfg' = [f \in Fields |-> IF f \in DOMAIN file.has THEN file.has[f] ELSE DefaultServerConfig[f]]
          /\ stage' = "keygen"
       \/ /\ file.is # "absent"
          /\ stage' = "refused"
          /\ UNCHANGED cfg
    /\ UNCHANGED <<disk, drawn, starts, edits>>

(* Only a configuration without a key gets one, and only then is saved.    *)
GenerateKey ==
    /\ stage = "keygen"
    /\ \/ /\ cfg["secret_key"] = NoKey
          /\ \E k \in Keys \ drawn :
                /\ cfg' = [cfg EXCEPT !["secret_key"] = k]
                /\ drawn' = drawn \cup {k}
          /\ stage' = "save"
       \/ /\ cfg["secret_key"] # NoKey
          /\ stage' = "serve"
          /\ UNCHANGED <<cfg, drawn>>
    /\ UNCHANGED <<disk, starts, edits>>

(* SaveServerConfig.  A directory or a file that cannot be opened is       *)
(* logged, and the server goes on with a key nobody has saved.             *)
SaveOpens == /\ stage = "save"
             /\ \/ file' = Torn /\ stage' = "write"
                \/ stage' = "serve" /\ UNCHANGED file
             /\ UNCHANGED <<saved, wrote, cfg, drawn, starts, edits>>

(* So is a disk that is full, with the file torn.                          *)
SaveWrites == /\ stage = "write"
              /\ \/ file' = JSON(cfg) /\ saved' = cfg["secret_key"]
                 \/ UNCHANGED <<file, saved>>
              /\ stage' = "serve"
              /\ UNCHANGED <<wrote, cfg, drawn, starts, edits>>

(* A kill, a power failure, or the end of main.                            *)
Stop == /\ stage \notin {"down", "refused"}
        /\ stage' = "down"
        /\ cfg' = DefaultServerConfig
        /\ UNCHANGED <<disk, drawn, starts, edits>>

ConfigNext == \/ UserEdits \/ Start \/ LoadServerConfig \/ GenerateKey
              \/ SaveOpens \/ SaveWrites \/ Stop

ConfigSpec == ConfigInit /\ [][ConfigNext]_configVars
-----------------------------------------------------------------------------
(* A server that serves has the settings the user last wrote, and the key  *)
(* that was last saved, which is never written over: no crash while the    *)
(* file is written makes a later start come up with defaults or with a key *)
(* of its own in silence.                                                  *)
ServesWhatWasSaved ==
    /\ stage = "serve" => cfg["setting"] = wrote
    /\ saved # NoKey => /\ file.is = "json" /\ file.has["secret_key"] = saved
                        /\ stage = "serve" => cfg["secret_key"] = saved
=============================================================================
