--------------------------- MODULE RegistryCalls ---------------------------
(* The registry: src/RegistryUtil.cpp, and what Win32Utils.cpp builds on it. *)
EXTENDS CallSteps, TLC

\* RUOpenKey and RUCreateKey: on the 64 bit view of the registry when asked to.
KeyOf == [begin |-> Either("wow64", "key"),
          wow64 |-> Do("is_wow64_process", "key", "key"),
          key   |-> Take("key", "hand", "false"),
          hand  |-> Hand("key", "true")]

RUOpenKey == KeyOf
RUCreateKey == KeyOf
RUCloseKey == [begin |-> Receive("key", "close"), close |-> Give("key", "true")]

\* One call of the API on a key of the caller's; "false" is the default value.
OnKey == [begin |-> Deed("true", "false")]

RUReadDword == OnKey
RUWriteDword == OnKey
RUReadQword == OnKey
RUWriteQword == OnKey
RUSetString == OnKey
RUSetExpandString == OnKey
RUSetMultiString == OnKey
RUSetBinaryData == OnKey
RUDeleteValue == OnKey

\* A buffer that grows while the value does not fit; use is what becomes of it.
Reading(steps) ==
  [begin   |-> Take("buffer", "query", "false"),
   query   |-> Try("value", "more"),
   more    |-> Either("realloc", "free"),
   realloc |-> Call("query", "free"),
   free    |-> Give("buffer", "false")] @@ steps

RUReadString == Reading([value |-> Give("buffer", "true")])
RUReadBinaryData == Reading([value |-> Hand("buffer", "true")])

RUReadMultiString ==
  [begin  |-> Call("type", "false"),
   type   |-> Either("malloc", "false"),
   malloc |-> Guard("ptr", "query", "false"),
   query  |-> Deed("true", "false")]

\* The Ex functions: on a sub key, which a RegHandle closes.
OnSubKey(f) == [begin |-> Do("RUOpenKey", "ward", "false"),
                ward  |-> Ward("key", "on"),
                on    |-> Must(Relay(f, "true", "false"))]

RUReadDwordEx == OnSubKey("RUReadDword")
RUWriteDwordEx == OnSubKey("RUWriteDword")
RUReadQwordEx == OnSubKey("RUReadQword")
RUWriteQwordEx == OnSubKey("RUWriteQword")
RUReadStringEx == OnSubKey("RUReadString")
RUSetStringEx == OnSubKey("RUSetString")
RUSetExpandStringEx == OnSubKey("RUSetExpandString")
RUReadMultiStringEx == OnSubKey("RUReadMultiString")
RUSetMultiStringEx == OnSubKey("RUSetMultiString")
RUReadBinaryDataEx == OnSubKey("RUReadBinaryData")
RUSetBinaryDataEx == OnSubKey("RUSetBinaryData")
RUDeleteValueEx == OnSubKey("RUDeleteValue")

\* The tree below the key first, when asked to, then the key.
RUDeleteKey ==
  [begin  |-> Either("open", "wow64"),
   open   |-> Do("RUOpenKey", "ward", "false"),
   ward   |-> Ward("key", "tree"),
   tree   |-> Deed("wow64", "false"),
   wow64  |-> Do("is_wow64_process", "delete", "delete"),
   delete |-> Deed("true", "false")]

RUIsKeyExists == [begin |-> Must(Do("RUOpenKey", "ward", "false")), ward |-> Ward("key", "true")]

\* Two buffers for every sub key: both are allocated before either is checked, and
\* the callback that ends the loop leaves before they are freed.  A sub key that
\* cannot be read is passed over, the values have two buffers of their own.
reg_enum_key_values ==
  [begin |-> Deed("key", "false"),
   key   |-> Either("name", "valueName"),
   name  |-> Take("sub_key_name", "class", "classOnly"),
   class |-> Take("class_name", "enum", "key"),
   classOnly |-> Take("class_name", "key", "key"),
   enum  |-> Call("key_cb", "freeName"),
   key_cb |-> Relay("sub_key_iterate_callback", "freeName", "valueName"),
   freeName |-> Give("sub_key_name", "freeClass"),
   freeClass |-> Give("class_name", "key"),
   valueName |-> Take("value_name", "valueData", "dataOnly"),
   valueData |-> Take("value_data", "value", "freeValueName"),
   dataOnly |-> Take("value_data", "freeValueData", "true"),
   value |-> Either("value_cb", "freeData"),
   value_cb |-> Call("value", "freeData"),
   freeData |-> Give("value_data", "freeValueName"),
   freeValueName |-> Give("value_name", "true"),
   freeValueData |-> Give("value_data", "true")]

str_to_reg_key == OnKey
-----------------------------------------------------------------------------
(* Installed programs, error reporting *)

\* A system component, or a program without a name, is none; the other three
\* values may be missing.
get_installed_program_info ==
  [begin |-> Do("RUReadDword", "component", "component"),
   component |-> Either("name", "false"),
   name  |-> Must(Do("RUReadString", "version", "false")),
   version |-> Do("RUReadString", "new", "new"),
   new   |-> Take("program", "hand", "false"),
   hand  |-> Hand("program", "true")]

\* The program goes to the list of the one who enumerates.
sub_key_iterate_callback ==
  [begin |-> Must(Do("RUOpenKey", "info", "false")),
   info  |-> Relay("get_installed_program_info", "close", "close"),
   close |-> Do("RUCloseKey", "true", "true")]

get_installed_programs ==
  [begin |-> Do("RUOpenKey", "enum", "false"),
   enum  |-> Must(Relay("reg_enum_key_values", "close", "close")),
   close |-> Do("RUCloseKey", "exists", "exists"),
   exists |-> Do("RUIsKeyExists", "open64", "true"),
   open64 |-> Do("RUOpenKey", "enum64", "false"),
   enum64 |-> Must(Relay("reg_enum_key_values", "close64", "close64")),
   close64 |-> Do("RUCloseKey", "true", "true")]

\* Mutant: the second value is written without a look at the result.
setup_wer_unchecked ==
  [begin |-> Do("RUCreateKey", "ward", "false"),
   ward  |-> Ward("key", "type"),
   type  |-> Must(Do("RUWriteDword", "flags", "false")),
   flags |-> Must(Do("RUWriteDword", "directory", "directory")),
   directory |-> Must(Do("WUCreateDirectory", "folder", "false")),
   folder |-> Must(Do("RUSetExpandString", "true", "false"))]

setup_wer ==
  [begin |-> Do("RUCreateKey", "ward", "false"),
   ward  |-> Ward("key", "type"),
   type  |-> Must(Do("RUWriteDword", "flags", "false")),
   flags |-> Must(Do("RUWriteDword", "directory", "false")),
   directory |-> Must(Do("WUCreateDirectory", "folder", "false")),
   folder |-> Must(Do("RUSetExpandString", "true", "false"))]
-----------------------------------------------------------------------------
RegistryBodies ==
  [RUOpenKey |-> RUOpenKey, RUCreateKey |-> RUCreateKey, RUCloseKey |-> RUCloseKey,
   RUReadDword |-> RUReadDword, RUReadDwordEx |-> RUReadDwordEx,
   RUWriteDword |-> RUWriteDword, RUWriteDwordEx |-> RUWriteDwordEx,
   RUReadQword |-> RUReadQword, RUReadQwordEx |-> RUReadQwordEx,
   RUWriteQword |-> RUWriteQword, RUWriteQwordEx |-> RUWriteQwordEx,
   RUReadString |-> RUReadString, RUReadStringEx |-> RUReadStringEx,
   RUSetString |-> RUSetString, RUSetStringEx |-> RUSetStringEx,
   RUSetExpandString |-> RUSetExpandString, RUSetExpandStringEx |-> RUSetExpandStringEx,
   RUReadMultiString |-> RUReadMultiString, RUReadMultiStringEx |-> RUReadMultiStringEx,
   RUSetMultiString |-> RUSetMultiString, RUSetMultiStringEx |-> RUSetMultiStringEx,
   RUReadBinaryData |-> RUReadBinaryData, RUReadBinaryDataEx |-> RUReadBinaryDataEx,
   RUSetBinaryData |-> RUSetBinaryData, RUSetBinaryDataEx |-> RUSetBinaryDataEx,
   RUDeleteValue |-> RUDeleteValue, RUDeleteValueEx |-> RUDeleteValueEx,
   RUDeleteKey |-> RUDeleteKey, RUIsKeyExists |-> RUIsKeyExists,
   reg_enum_key_values |-> reg_enum_key_values, str_to_reg_key |-> str_to_reg_key,
   get_installed_program_info |-> get_installed_program_info,
   sub_key_iterate_callback |-> sub_key_iterate_callback,
   get_installed_programs |-> get_installed_programs, setup_wer |-> setup_wer]
=============================================================================
