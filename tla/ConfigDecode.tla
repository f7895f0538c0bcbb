---------------------------- MODULE ConfigDecode ----------------------------
(* How a configuration section is read from settings: the types of         *)
(* internal/config/base, its validators, and the decode hooks of           *)
(* internal/config/decodeutil.  A setting is the text of one environment   *)
(* variable; the model keeps what the text parses as (its form) and the    *)
(* value it then has.  An operator that can fail returns a set: empty for  *)
(* an error, and otherwise the one result.                                 *)
EXTENDS Integers, Sequences, FiniteSets

\* Durations are in tenths of a second.  (Retention periods of telemetry,
\* which reach ten years, are in hours.)
Second == 10
Minute == 60 * Second
Hour   == 60 * Minute
Day    == 24 * Hour
Week   == 7 * Day

\* Sizes are in bytes, in powers of ten.
Kilo == 1000
Mega == 1000 * Kilo

\* What a text can be read as.  A word is any other text, "" included.
Number(n)   == [form |-> "number", value |-> n]
Duration(d) == [form |-> "duration", value |-> d]
Size(n)     == [form |-> "size", value |-> n]
Flag(b)     == [form |-> "flag", value |-> b]
Version(v)  == [form |-> "version", value |-> v]
List(s)     == [form |-> "list", value |-> s]
Word(w)     == [form |-> "word", value |-> w]

-----------------------------------------------------------------------------
(* The enumerations of base/types.go: the texts that name their values.    *)

LogLevels    == {"debug", "info", "warn", "warning", "error", "err", "fatal"}
LogFormats   == {"json", "structured", "console", "text"}
Environments == {"local", "dev", "development", "staging", "prod", "production", "test", "testing"}
AWSRegions   == {"us-east-1", "us-east-2", "us-west-1", "us-west-2", "eu-west-1", "eu-west-2",
                 "eu-central-1", "ap-southeast-1", "ap-southeast-2", "ap-northeast-1"}
TLSVersions  == {"1.0", "1.1", "1.2", "1.3"}

\* Two texts of these pairs name one value.
Synonym(w) ==
  CASE w = "warning" -> "warn"
    [] w = "err" -> "error"
    [] w = "structured" -> "json"
    [] w = "text" -> "console"
    [] w = "development" -> "dev"
    [] w = "production" -> "prod"
    [] w = "testing" -> "test"
    [] OTHER -> w

\* Path and Host are strings; Port is an unsigned 16 bit integer.
PortModulus == 65536

-----------------------------------------------------------------------------
(* The decode hooks.  A hook is chosen by the Go type of the field, here   *)
(* its kind.                                                               *)

StringToDurationHook(raw) == IF raw.form = "duration" THEN {raw.value} ELSE {}

\* The numbers 1 and 0 are flags too.
StringToBoolHook(raw) ==
  CASE raw.form = "flag" -> {raw.value}
    [] raw.form = "number" /\ raw.value \in {0, 1} -> {raw.value = 1}
    [] OTHER -> {}

StringToIntHook(raw) == IF raw.form = "number" THEN {raw.value} ELSE {}

\* The number is converted, not checked: it keeps its low 16 bits.
StringToPortHook(raw) == IF raw.form = "number" THEN {raw.value % PortModulus} ELSE {}

\* A count, with a suffix (which makes it a size) or without.
StringToByteHook(raw) ==
  IF raw.form \in {"number", "size"} /\ raw.value >= 0 THEN {raw.value} ELSE {}

StringToSemverHook(raw) == IF raw.form = "version" THEN {raw.value} ELSE {}

\* Log level, log format, environment, region and TLS version: one of its
\* names, or an error.
Named(names, raw) == IF raw.form = "word" THEN {Synonym(w) : w \in {raw.value} \cap names} ELSE {}

StringToLogLevelHook(raw)    == Named(LogLevels, raw)
StringToEnvironmentHook(raw) == Named(Environments, raw)
StringToLogFormatHook(raw)   == Named(LogFormats, raw)
StringToAWSRegionHook(raw)   == Named(AWSRegions, raw)
StringToTLSVersionHook(raw)  == Named(TLSVersions, raw)

\* ParseUint fails outside eight bits, NewPercentage above a hundred.
StringToPercentageHook(raw) ==
  IF raw.form = "number" THEN {raw.value} \cap (0 .. 100) ELSE {}

\* A text without a comma is a list of one; the empty text is a nil slice.
CSVToStringSliceHook(raw) ==
  CASE raw.form = "list" -> {raw.value}
    [] raw.form = "word" -> {IF raw.value = "" THEN <<>> ELSE <<raw.value>>}
    [] OTHER -> {<<"other">>}

\* No hook converts to an HTTPMode, and the hook for an export format is not
\* one for a list of them: mapstructure refuses any text for these fields.
NoHook(raw) == {}

\* What a field of a kind becomes.  A string takes the text as it is.
Decoded(kind, raw) ==
  CASE kind = "duration"    -> StringToDurationHook(raw)
    [] kind = "flag"        -> StringToBoolHook(raw)
    [] kind = "int"         -> StringToIntHook(raw)
    [] kind = "port"        -> StringToPortHook(raw)
    [] kind = "size"        -> StringToByteHook(raw)
    [] kind = "version"     -> StringToSemverHook(raw)
    [] kind = "log level"   -> StringToLogLevelHook(raw)
    [] kind = "log format"  -> StringToLogFormatHook(raw)
    [] kind = "environment" -> StringToEnvironmentHook(raw)
    [] kind = "region"      -> StringToAWSRegionHook(raw)
    [] kind = "tls version" -> StringToTLSVersionHook(raw)
    [] kind = "percentage"  -> StringToPercentageHook(raw)
    [] kind = "list"        -> CSVToStringSliceHook(raw)
    [] kind \in {"http mode", "export formats"} -> NoHook(raw)
    [] kind = "string"      -> {IF raw.form = "word" THEN raw.value ELSE "other"}

-----------------------------------------------------------------------------
(* The validators of base/functions.go, as the conditions they report.     *)

\* A field of a section: its Go type and its default.
Field(kind, default) == [kind |-> kind, default |-> default]

\* The MIN_, MAX_ and DEFAULT_ constants of a field.
Limit(min, max, default) == [min |-> min, max |-> max, default |-> default]

RangeFNum(v, limit) == v >= limit.min /\ v <= limit.max
RangeOrAllowed(v, limit, allowed) == v = allowed \/ RangeFNum(v, limit)
GT0FNum(v) == v > 0
LTE(v, max) == v <= max
NotEmpty(v) == v # ""
AllUnique(vals) == \A i, j \in DOMAIN vals : vals[i] = vals[j] => i = j

\* Later layers override earlier ones, key by key.
Merge(layers) ==
  LET keys == UNION {DOMAIN layers[i] : i \in DOMAIN layers}
      Last(k) == CHOOSE i \in DOMAIN layers :
                   k \in DOMAIN layers[i] /\ \A j \in DOMAIN layers : j > i => k \notin DOMAIN layers[j]
  IN  [k \in keys |-> layers[Last(k)][k]]

-----------------------------------------------------------------------------
(* Decoding one section.                                                   *)

\* DecodePrefixInto: the settings under the prefix of the section that name
\* one of its fields; mapstructure ignores the others.  A nil slice decodes to
\* nothing.
Section(fields, settings) ==
  {k \in DOMAIN fields \cap DOMAIN settings :
     ~(fields[k].kind = "list" /\ settings[k] = Word(""))}

\* mapstructure decodes into the slice that holds the default: a shorter list
\* leaves the rest of the default in place.
Overlay(new, default) ==
  [i \in DOMAIN new \cup DOMAIN default |-> IF i \in DOMAIN new THEN new[i] ELSE default[i]]

DecodePrefixInto(fields, settings) ==
  LET Parsed(k) == Decoded(fields[k].kind, settings[k])
      Default(k) == fields[k].default
      Value(k)  == LET v == CHOOSE v \in Parsed(k) : TRUE
                   IN  IF fields[k].kind = "list" THEN Overlay(v, Default(k)) ELSE v
      given     == Section(fields, settings)
  IN  IF \E k \in given : Parsed(k) = {}
      THEN {}
      ELSE {[k \in DOMAIN fields |-> IF k \in given THEN Value(k) ELSE Default(k)]}
=============================================================================
