------------------------------- MODULE Config --------------------------------
(***************************************************************************)
(* The configuration manager (server/src/config.c): registered items by    *)
(* section and key, the file they are read from and written to.            *)
(*                                                                         *)
(* A name is a pair, <<what fits into its buffer, the rest>>; names are    *)
(* words without blanks, brackets or "=", descriptions fit a line.  The    *)
(* callers of the two functions for files (config_load, config_save,       *)
(* config_find_item) and the registration of types other than strings are  *)
(* declared in config.h and not in the repository: taken as config.c uses  *)
(* them.  INT_ARRAY is treated as STRING_ARRAY is.  All of it happens      *)
(* under the manager's mutex.                                              *)
(***************************************************************************)
EXTENDS Naturals, Sequences, FiniteSets, FiniteSetsExt

CONSTANTS SectionNames, Keys,   \* names, pairs as above
          Files,                \* files an administrator may write
          Wide,                 \* texts too long for the reader's line, or of two lines
          Registrations,        \* what programs register: type, default, strict validation
          MaxItems              \* bound: registrations

ConfigTypes == {"STRING", "INT", "FLOAT", "BOOL", "STRING_ARRAY"}

ASSUME CfgAssumption ==
    /\ IsFiniteSet(SectionNames) /\ IsFiniteSet(Keys) /\ MaxItems \in Nat
    /\ \A f \in Files : Len(f) \in Nat /\ DOMAIN f = 1..Len(f)
    /\ DOMAIN Wide \cap {"0", "1", "true", "false", "0.500000", "1.000000", "0.000000"} = {}
    /\ \A r \in Registrations : r.type \in ConfigTypes /\ r.strict \in {r.type = "STRING", FALSE}

VARIABLES sections,   \* manager->sections: name and items
          file,       \* lines of the file: section headers and pairs
          registered  \* registrations so far

cfgvars == <<sections, file, registered>>

(* The buffers hold CONFIG_MAX_SECTION_LEN - 1 and CONFIG_MAX_KEY_LEN - 1
   characters. *)
CutName(name) == <<name[1], "">>

CfgInit == sections = <<>> /\ file = <<>> /\ registered = 0

-----------------------------------------------------------------------------
(* Values and texts *)

(* validate_config_value: a callback decides, or else the type; strtol and
   strtof take an empty text for a number, and anything is an array. *)
ValidValue(item, text) ==
    IF item.strict THEN text # ""
    ELSE CASE item.type = "INT" -> text \in {"", "0", "1"}
           [] item.type = "FLOAT" ->
                text \in {"", "0", "1", "0.5", "0.0000001", "0.500000", "1.000000", "0.000000"}
           [] item.type = "BOOL" -> text \in {"true", "false", "yes", "no", "1", "0"}
           [] OTHER -> TRUE

Tokens(text) == CASE text = "" -> <<>> [] text = "a,b" -> <<"a", "b">> [] OTHER -> <<text>>

ConvertFloat(text) ==
    CASE text \in {"1", "1.000000"} -> "one"
      [] text \in {"0.5", "0.500000"} -> "half"
      [] text = "0.0000001" -> "tiny"
      [] OTHER -> "zero"

(* convert_string_to_value *)
ConvertString(type, text) ==
    CASE type = "STRING" -> text
      [] type = "INT" -> IF text = "1" THEN 1 ELSE 0
      [] type = "FLOAT" -> ConvertFloat(text)
      [] type = "BOOL" -> text \in {"true", "yes", "1"}
      [] type = "STRING_ARRAY" -> Tokens(text)

(* What write_config_file prints after the "=": six decimals of a FLOAT, and
   nothing for an empty array. *)
PrintValue(item) ==
    LET v == item.value IN
    CASE item.type = "STRING" -> v
      [] item.type = "INT" -> IF v = 1 THEN "1" ELSE "0"
      [] item.type = "FLOAT" -> IF v = "one" THEN "1.000000" ELSE IF v = "half" THEN "0.500000" ELSE "0.000000"
      [] item.type = "BOOL" -> IF v THEN "true" ELSE "false"
      [] item.type = "STRING_ARRAY" -> IF Len(v) = 2 THEN "a,b" ELSE IF v = <<>> THEN "" ELSE v[1]

(* The reader's lines.  It trims, and fgets ends a line after
   CONFIG_MAX_VALUE_LEN - 1 characters or at a line break in the text: what is
   over is read as a line of its own, and may be a pair or a header. *)
ReadBack(text) ==
    IF text \in DOMAIN Wide THEN Wide[text].first ELSE IF text = " a" THEN "a" ELSE text

NoLine == [kind |-> "none", name |-> <<"", "">>, text |-> ""]
Rest(line) == IF line.kind = "pair" /\ line.text \in DOMAIN Wide THEN Wide[line.text].rest ELSE NoLine

-----------------------------------------------------------------------------
(* config_register_string *)

SectionsNamed(secs, name) == {s \in DOMAIN secs : secs[s].name = name}

(* find_or_create_section: the name asked for is compared as a whole, the one
   stored is cut. *)
WithSection(name) ==
    IF SectionsNamed(sections, name) # {} THEN sections
    ELSE Append(sections, [name |-> CutName(name), items |-> <<>>])

SectionIndex(name) ==
    IF SectionsNamed(sections, name) # {} THEN Min(SectionsNamed(sections, name)) ELSE Len(sections) + 1

(* find_item_in_section *)
ItemsWithKey(section, key) == {i \in DOMAIN section.items : section.items[i].key = key}

NewItem(key, type, default, strict) ==
    [key |-> CutName(key), type |-> type, strict |-> strict,
     default |-> ConvertString(type, default), value |-> ConvertString(type, default)]

RegisterItem(name, key, type, default, strict) ==
    LET s == SectionIndex(name)
        secs == WithSection(name)
    IN
    /\ registered < MaxItems
    /\ registered' = registered + 1
    /\ \/ ItemsWithKey(secs[s], key) = {}
          /\ sections' = [secs EXCEPT ![s].items = Append(@, NewItem(key, type, default, strict))]
       \/ sections' = secs   \* the key is there (-3), or there is no memory (-4)
    /\ UNCHANGED file

-----------------------------------------------------------------------------
(* parse_config_file *)

(* "[]" is no header. *)
IsHeader(line) == line.kind = "section" /\ line.name[1] # ""

(* The section a line belongs to. *)
CurrentSection(f, n) ==
    LET headers == {m \in 1..n : IsHeader(f[m]) \/ (m < n /\ IsHeader(Rest(f[m])))}
        last == f[Max(headers)]
    IN IF headers = {} THEN <<"default", "">> ELSE IF IsHeader(last) THEN last.name ELSE Rest(last).name

(* config_find_item: the first of the name, and in it the first of the key. *)
Finds(secs, name, key, s, i) ==
    /\ secs[s].name = name /\ secs[s].items[i].key = key
    /\ \A r \in SectionsNamed(secs, name) : s <= r
    /\ \A j \in ItemsWithKey(secs[s], key) : i <= j

(* A pair in a section changes an item; a pair without a key is skipped. *)
Changes(secs, section, line, s, i) ==
    /\ line.kind = "pair" /\ line.name[1] # ""
    /\ Finds(secs, section, line.name, s, i)
    /\ ValidValue(secs[s].items[i], ReadBack(line.text))

(* The lines that change an item, themselves or by their rest; the last one has
   its way. *)
LinesFor(secs, f, s, i) ==
    {n \in DOMAIN f : \E line \in {f[n], Rest(f[n])} : Changes(secs, CurrentSection(f, n), line, s, i)}

TextFor(secs, f, s, i, n) ==
    ReadBack(IF Changes(secs, CurrentSection(f, n), Rest(f[n]), s, i) THEN Rest(f[n]).text ELSE f[n].text)

ParseConfigFile(secs, f) ==
    [s \in DOMAIN secs |->
       [secs[s] EXCEPT !.items = [i \in DOMAIN secs[s].items |->
          LET item == secs[s].items[i]
              lines == LinesFor(secs, f, s, i)
          IN IF lines = {} THEN item
             ELSE [item EXCEPT !.value = ConvertString(item.type, TextFor(secs, f, s, i, Max(lines)))]]]]

Load ==
    /\ sections' = ParseConfigFile(sections, file)
    /\ UNCHANGED <<file, registered>>

-----------------------------------------------------------------------------
(* write_config_file *)

Header(section) == [kind |-> "section", name |-> section.name, text |-> ""]
Pair(item) == [kind |-> "pair", name |-> item.key, text |-> PrintValue(item)]

(* Mutation variant: items of the section "default" come without a header. *)
SectionLinesNoDefault(section) ==
    IF section.items = <<>> THEN <<>>
    ELSE (IF section.name[1] = "default" THEN <<>> ELSE <<Header(section)>>)
         \o [i \in DOMAIN section.items |-> Pair(section.items[i])]

(* A section without items is left out. *)
SectionLines(section) ==
    IF section.items = <<>> THEN <<>>
    ELSE <<Header(section)>> \o [i \in DOMAIN section.items |-> Pair(section.items[i])]

WriteConfigFile(secs) ==
    LET lines[s \in 0..Len(secs)] == IF s = 0 THEN <<>> ELSE lines[s - 1] \o SectionLines(secs[s])
    IN lines[Len(secs)]

Save ==
    /\ file' = WriteConfigFile(sections)
    /\ UNCHANGED <<sections, registered>>

Edit(f) == file' = f /\ UNCHANGED <<sections, registered>>

(* config_manager_destroy, as the program ends or reloads everything. *)
DestroyManager ==
    /\ sections' = <<>>
    /\ UNCHANGED <<file, registered>>

CfgNext ==
    \/ \E n \in SectionNames, k \in Keys, r \in Registrations : RegisterItem(n, k, r.type, r.default, r.strict)
    \/ Load \/ Save \/ DestroyManager \/ \E f \in Files : Edit(f)

CfgSpec == CfgInit /\ [][CfgNext]_cfgvars

-----------------------------------------------------------------------------
(* Properties *)

AtDefault(secs) ==
    [s \in DOMAIN secs |-> [secs[s] EXCEPT !.items =
        [i \in DOMAIN secs[s].items |-> [secs[s].items[i] EXCEPT !.value = secs[s].items[i].default]]]]

(* The file can be read as it was written: sections have names, and no value
   runs over its line into another pair or header. *)
Readable ==
    \A s \in DOMAIN sections : \A i \in DOMAIN sections[s].items :
       sections[s].name[1] # "" /\ Rest(Pair(sections[s].items[i])).kind = "none"

(* Nothing else has this section's name or this item's key, and its line
   carries its value: no blanks around it, no digits after the sixth. *)
Carried(s, i) ==
    LET item == sections[s].items[i] IN
    /\ SectionsNamed(sections, sections[s].name) = {s} /\ ItemsWithKey(sections[s], item.key) = {i}
    /\ item.key[1] # ""
    /\ ConvertString(item.type, ReadBack(PrintValue(item))) = item.value

(* What write_config_file leaves (lines 160-236) gives every item its value
   again when a program with the same registrations starts from its defaults
   and calls parse_config_file (lines 93-155), whatever was read before; but
   for names longer than their buffers, which are not told apart any more,
   names that are empty, and values a line does not carry.  A value too long
   for its line may spoil the others: what is over is read as a pair or as a
   header, and then nothing is said. *)
SavedIsRestored ==
    LET again == ParseConfigFile(AtDefault(sections), WriteConfigFile(sections)) IN
    Readable => \A s \in DOMAIN sections : \A i \in DOMAIN sections[s].items :
       Carried(s, i) => again[s].items[i].value = sections[s].items[i].value
==============================================================================
