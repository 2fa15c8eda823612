----------------------------- MODULE FileCalls -----------------------------
(* Files, disks, paths, encodings: src/Win32Utils.cpp, FileIoHelper.cpp, AirCrypto.cpp; *)
(* drivers and the log of events: scm_context.cpp, ServiceBase.cpp.                     *)
EXTENDS CallSteps, TLC

\* A buffer of the size asked for, under a guard, and the query that fills it.
Filled(malloc) == [begin |-> Call("malloc", "false"),
                   malloc |-> malloc,
                   query |-> Deed("true", "false")]

\* A buffer that grows until the answer fits: freed before every malloc but the first.
Growing == [begin  |-> Take("buf", "query", "false"),
            query  |-> Try("free", "short"),
            short  |-> Either("refree", "failed"),
            refree |-> Give("buf", "begin"),
            failed |-> Give("buf", "false"),
            free   |-> Give("buf", "true")]

get_mapped_file_name == Growing
query_dos_device == Growing

get_filepath_by_handle ==
  [begin   |-> Call("section", "false"),
   section |-> Guard("section", "view", "false"),
   view    |-> Guard("view", "name", "false"),
   name    |-> Do("get_mapped_file_name", "dos", "false"),
   dos     |-> Must(Do("nt_name_to_dos_name", "true", "false"))]

\* The drives one after the other, until one is the device of the name.
nt_name_to_dos_name ==
  [begin |-> Call("drive", "false"),
   drive |-> Either("device", "false"),
   device |-> Do("query_dos_device", "match", "false"),
   match |-> Try("true", "drive")]

\* FileIoHelper::GetMappedFileName: a view for as long as the name is asked for.
GetMappedFileName ==
  [begin   |-> Take("view", "name", "false"),
   name    |-> Do("get_mapped_file_name", "dos", "refused"),
   dos     |-> Either("convert", "release"),
   convert |-> Do("nt_name_to_dos_name", "release", "refused"),
   release |-> Give("view", "true"),
   refused |-> Give("view", "false")]

is_file_existsW == [begin |-> Deed("true", "false")]
is_dir == [begin |-> Call("kind", "false"), kind |-> Deed("true", "false")]
is_file == [begin |-> Call("kind", "false"), kind |-> Deed("true", "false")]
-----------------------------------------------------------------------------
(* Disks *)

\* A drive that cannot be opened, or is no disk, is skipped.
get_disk_numbers ==
  [begin  |-> Call("drive", "false"),
   drive  |-> Either("open", "true"),
   open   |-> Take("disk", "number", "drive"),
   number |-> Call("close", "close"),
   close  |-> Give("disk", "drive")]

\* realloc moves the buffer or, with NULL, leaves it behind.  A failure other than a
\* short buffer returns before the guard of the buffer is made.
get_disk_volume_info ==
  [begin   |-> Guard("disk", "malloc", "false"),
   malloc  |-> Take("layout_info", "query", "false"),
   query   |-> Try("ward", "short"),
   short   |-> Either("realloc", "false"),
   realloc |-> Call("query", "false"),
   ward    |-> Ward("layout_info", "true")]

\* A disk that cannot be read is skipped; realloc is not checked.
dump_all_disk_drive_layout ==
  [begin   |-> Do("get_disk_numbers", "disk", "false"),
   disk    |-> Either("open", "true"),
   open    |-> Take("disk", "malloc", "disk"),
   malloc  |-> Take("dli", "query", "close"),
   query   |-> Call("partition", "short"),
   short   |-> Either("realloc", "free"),
   realloc |-> Call("query", "crash"),
   partition |-> Either("read", "free"),
   read    |-> Call("partition", "partition"),
   free    |-> Give("dli", "close"),
   close   |-> Give("disk", "disk")]

\* "true" also when the volume was not opened or not read.
dump_boot_area ==
  [begin |-> Do("set_privilege", "open", "false"),
   open  |-> Take("disk", "query", "true"),
   query |-> Call("seek", "close"),
   seek  |-> Call("read", "close"),
   read  |-> Deed("close", "close"),
   close |-> Give("disk", "true")]
-----------------------------------------------------------------------------
(* Files *)

open_file_to_write == [begin |-> Take("file", "hand", "false"), hand |-> Hand("file", "true")]
open_file_to_read == open_file_to_write

get_file_size_of_handle == [begin |-> Deed("true", "false")]

get_file_size ==
  [begin  |-> Call("open", "false"),
   open   |-> Take("file", "size", "false"),
   size   |-> Must(Do("get_file_size_of_handle", "close", "failed")),
   failed |-> Give("file", "false"),
   close  |-> Give("file", "true")]

\* A file without the resource has the empty answer.
VersionInfo ==
  [begin  |-> Call("malloc", "none"),
   none   |-> Deed("true", "false"),
   malloc |-> Guard("buffer", "info", "false"),
   info   |-> Call("value", "false"),
   value  |-> Deed("true", "false")]

get_file_version == VersionInfo
get_file_company_name == VersionInfo
get_file_original_name == VersionInfo

write_to_file_of_handle ==
  [begin |-> Call("format", "false"), format |-> Call("write", "false"), write |-> Deed("true", "false")]
write_to_filea == write_to_file_of_handle

write_to_filew ==
  [begin  |-> Guard("file", "seek", "false"),
   seek   |-> Call("format", "false"),
   format |-> Call("write", "false"),
   write  |-> Deed("true", "false")]

get_file_position == [begin |-> Call("seek", "false"), seek |-> Deed("true", "false")]
set_file_position == get_file_position
set_file_size == [begin |-> Do("set_file_position", "end", "false"), end |-> Deed("true", "false")]

\* The callback may end it early.
read_line ==
  [begin |-> Guard("file", "line", "false"),
   line  |-> Either("cb", "true"),
   cb    |-> Either("line", "true")]

SaveToFileAsUTF8W ==
  [begin  |-> Either("false", "utf8"),
   utf8   |-> Do("WcsToMbsUTF8Ex", "open", "false"),
   open   |-> Do("open_file_to_write", "mark", "false"),
   mark   |-> Call("text", "failed"),
   text   |-> Deed("close", "failed"),
   failed |-> Give("file", "false"),
   close  |-> Give("file", "true")]

\* The file exists: FALSE; the text cannot be converted: a file with nothing is refused.
SaveToFileAsUTF8A ==
  [begin |-> Either("false", "wide"),
   wide  |-> Do("MbsToWcsEx", "save", "save"),
   save  |-> Must(Do("SaveToFileAsUTF8W", "true", "false"))]

LoadFileToMemory ==
  [begin   |-> Call("open", "false"),
   open    |-> Guard("file", "size", "false"),
   size    |-> Call("section", "false"),
   section |-> Guard("section", "view", "false"),
   view    |-> Guard("view", "malloc", "false"),
   malloc  |-> Must(Take("Memory", "hand", "false")),
   hand    |-> Hand("Memory", "true")]

SaveBinaryFile ==
  [begin  |-> Call("exists", "false"),
   exists |-> Either("delete", "open"),
   delete |-> Call("open", "false"),
   open   |-> Do("open_file_to_write", "ward", "false"),
   ward   |-> Ward("file", "write"),
   write  |-> Deed("true", "false")]

\* The context and what it holds is the caller's; on a failure all of it is released.
OpenFileContext ==
  [begin   |-> Do("is_file_existsW", "malloc", "false"),
   malloc  |-> Take("Ctx", "open", "false"),
   open    |-> Take("file", "size", "out"),
   size    |-> Call("section", "out"),
   section |-> Take("section", "view", "out"),
   view    |-> Must(Take("view", "handView", "out")),
   out     |-> Free("view", "out2"),
   out2    |-> Free("section", "out3"),
   out3    |-> Free("file", "free"),
   free    |-> Give("Ctx", "false"),
   handView |-> Hand("view", "handSection"),
   handSection |-> Hand("section", "handFile"),
   handFile |-> Hand("file", "handCtx"),
   handCtx |-> Hand("Ctx", "true")]

CloseFileContext ==
  [begin   |-> Receive("Ctx", "file"),
   file    |-> Receive("file", "section"),
   section |-> Receive("section", "view"),
   view    |-> Receive("view", "close"),
   close   |-> Give("file", "unmap"),
   unmap   |-> Give("section", "unview"),
   unview  |-> Give("view", "free"),
   free    |-> Give("Ctx", "true")]

\* Nothing to find, or nothing to be seen, is no error.  What becomes of a directory
\* below is not looked at; the callback ends its own level only.
find_files ==
  [begin |-> Take("search", "entry", "why"),
   why   |-> Either("true", "false"),
   entry |-> Either("below", "file"),
   below |-> Do("find_files", "next", "next"),
   file  |-> Call("next", "close"),
   next  |-> Either("entry", "close"),
   close |-> Give("search", "true")]

FindSubDirectory ==
  [begin |-> Must(Take("search", "entry", "false")),
   entry |-> Either("below", "next"),
   below |-> Do("FindSubDirectory", "next", "next"),
   next  |-> Either("entry", "close"),
   close |-> Give("search", "true")]

\* Nothing to do when the directory exists.
WUCreateDirectory == [begin |-> Either("true", "create"), create |-> Call("true", "false")]

WUDeleteDirectoryW ==
  [begin  |-> Either("true", "malloc"),
   malloc |-> Guard("tmp", "format", "false"),
   format |-> Call("delete", "false"),
   delete |-> Call("true", "false")]

\* A directory that cannot be removed or created: the next name.
create_directory_ex ==
  [begin  |-> Either("delete", "create"),
   delete |-> Do("WUDeleteDirectoryW", "create", "retry"),
   create |-> Attempt(Do("WUCreateDirectory", "true", "retry")),
   retry  |-> Either("begin", "false")]
-----------------------------------------------------------------------------
(* Paths and environment *)

\* A path longer than the buffer is reported as found, without it.
get_system_dir ==
  [begin  |-> Deed("fits", "false"),
   fits   |-> Either("true", "malloc"),
   malloc |-> Take("pbuf", "again", "crash"),
   again  |-> Deed("free", "failed"),
   failed |-> Give("pbuf", "false"),
   free   |-> Give("pbuf", "true")]

\* Not found on the path: once more among the drivers.
GetImageFullPathFromPredefinedPathW ==
  [begin  |-> Try("true", "cached"),
   cached |-> Either("search", "system"),
   system |-> Do("get_system_dir", "format", "false"),
   format |-> Call("search", "false"),
   search |-> Try("true", "false")]

GetImageFullPathFromPredefinedPathA ==
  [begin |-> Do("MbsToWcsEx", "path", "path"),
   path  |-> Must(Do("GetImageFullPathFromPredefinedPathW", "fits", "false")),
   fits  |-> Either("true", "false")]

get_windows_dir == Filled(Guard("buffer", "query", "crash"))
get_environment_value == Filled(Guard("buf", "query", "false"))

get_short_file_name ==
  [begin  |-> Call("malloc", "false"),
   malloc |-> Take("short_path", "query", "false"),
   query  |-> Deed("free", "failed"),
   failed |-> Give("short_path", "false"),
   free   |-> Give("short_path", "true")]

\* malloc is not checked.
WUGetCurrentDirectoryW ==
  [begin  |-> Call("malloc", "false"),
   malloc |-> Take("buf", "query", "crash"),
   query  |-> Deed("free", "failed"),
   failed |-> Give("buf", "false"),
   free   |-> Give("buf", "true")]

WUGetCurrentDirectoryA ==
  [begin |-> Must(Do("WUGetCurrentDirectoryW", "narrow", "false")),
   narrow |-> Do("WcsToMbsEx", "true", "true")]

get_temp_dirW == [begin |-> Deed("true", "false")]
get_temp_dirA == get_temp_dirW

\* Without the directory it returns INVALID_HANDLE_VALUE, which is true.
get_temp_fileW ==
  [begin |-> Must(Do("get_temp_dirW", "free", "true")),
   free  |-> Either("true", "retry"),
   retry |-> Either("free", "false")]

\* A failure is a length of 0, and no different from success.
get_module_path ==
  [begin  |-> Take("buf", "query", "false"),
   query  |-> Deed("fits", "free"),
   fits   |-> Either("free", "refree"),
   refree |-> Give("buf", "begin"),
   free   |-> Give("buf", "true")]
get_current_module_path == [begin |-> Must(Do("get_module_path", "true", "false"))]
get_current_module_dir ==
  [begin |-> Do("get_current_module_path", "token", "false"), token |-> Deed("true", "false")]
get_current_module_file == get_current_module_dir

\* The answer itself: "false" is the empty string.
Answer(f) == [begin |-> Must(Do(f, "true", "false"))]

get_module_pathEx == Answer("get_module_path")
get_current_module_pathEx == Answer("get_current_module_path")
get_current_module_dirEx == Answer("get_current_module_dir")
get_current_module_fileEx == Answer("get_current_module_file")
get_module_dirEx == [begin |-> Do("get_module_pathEx", "token", "token"),
                     token |-> Deed("true", "false")]

\* A variable that is not there leaves its member empty.
load_env_values == [begin |-> Do("get_environment_value", "root", "root"),
                    root  |-> Do("get_environment_value", "true", "true")]

get_default_browser == Filled(Guard("buf", "query", "false"))

\* FormatMessage allocates the text.
Win32ErrorToString ==
  [begin |-> Must(Take("msg", "free", "false")), free |-> Give("msg", "true")]

create_guid == [begin |-> Deed("true", "false")]
wstring_to_guid == [begin |-> Deed("true", "false")]
string_to_guid ==
  [begin |-> Do("MbsToWcsEx", "guid", "guid"), guid |-> Must(Do("wstring_to_guid", "true", "false"))]

\* "false" are the zeros.
guid_to_stringw == [begin |-> Deed("true", "false")]
guid_to_string ==
  [begin |-> Do("guid_to_stringw", "narrow", "narrow"),
   narrow |-> Must(Do("WcsToMbsEx", "true", "false"))]

\* Each call that fails leaves the screen as it is by then.
clear_console ==
  [begin   |-> Call("blanks", "true"),
   blanks  |-> Call("current", "true"),
   current |-> Call("colours", "true"),
   colours |-> Call("home", "true"),
   home    |-> Call("true", "true")]

\* The handle belongs to the caller.
open_driver == [begin |-> Must(Take("driver_handle", "hand", "false")),
                hand  |-> Hand("driver_handle", "true")]
io_control == [begin |-> Deed("true", "false")]

\* To the log of events, if it can be had.
WriteEventLogEntry == [begin  |-> Take("hEventSource", "report", "true"),
                       report |-> Call("close", "close"),
                       close  |-> Give("hEventSource", "true")]
WriteErrorLogEntry == [begin |-> Do("WriteEventLogEntry", "true", "true")]

\* The console of the parent, or one of its own; without create it is true as well.
attach_console ==
  [begin  |-> Call("true", "create"),
   create |-> Either("handle", "true"),
   handle |-> Either("alloc", "valid"),
   alloc  |-> Call("again", "false"),
   again  |-> Call("true", "false"),
   valid  |-> Either("true", "false")]
-----------------------------------------------------------------------------
(* Encodings: "false" is the empty string *)

MbsToWcsEx == Filled(Guard("outWchar", "query", "false"))
WcsToMbsEx == Filled(Guard("outChar", "query", "false"))
WcsToMbsUTF8Ex == Filled(Guard("outChar", "query", "false"))
Utf8MbsToWcsEx == Filled(Guard("outWchar", "query", "false"))

\* The caller frees the string.
Utf8MbsToWcs ==
  [begin  |-> Call("malloc", "false"),
   malloc |-> Take("outWchar", "query", "false"),
   query  |-> Deed("hand", "free"),
   free   |-> Give("outWchar", "false"),
   hand   |-> Hand("outWchar", "true")]

\* Bytes to hexadecimal digits.
bin_to_hexa == [begin |-> Guard("hex_buf", "print", "false"), print |-> Deed("true", "false")]
bin_to_hexa_fast == [begin |-> Must(Guard("hex_buffer", "true", "false"))]
bin_to_hexw_fast == bin_to_hexa_fast
\* What cannot be made wide is empty.
bin_to_hexw == [begin |-> Must(Do("bin_to_hexa", "wide", "false")),
                wide  |-> Do("MbsToWcsEx", "true", "true")]
-----------------------------------------------------------------------------
(* Encryption *)

\* The text is the caller's once all of it is there.
Crypted == [begin  |-> Take("text", "ward", "false"),
            ward   |-> Ward("text", "update"),
            update |-> Call("final", "false"),
            final  |-> Deed("release", "false"),
            release |-> Unguard("text", "hand"),
            hand   |-> Hand("text", "true")]

aes_init_v2 == [begin |-> Call("init", "false"), init |-> Deed("true", "false")]
aes_encrypt == Crypted
aes_decrypt == Crypted

aes256_crypt_buffer_v2 ==
  [begin   |-> Guard("ctx", "init", "false"),
   init    |-> Do("aes_init_v2", "way", "false"),
   way     |-> Either("encrypt", "decrypt"),
   encrypt |-> Must(Relay("aes_encrypt", "true", "false")),
   decrypt |-> Must(Relay("aes_decrypt", "true", "false"))]

CryptedFile ==
  [begin |-> Call("name", "false"),
   name  |-> Call("load", "false"),
   load  |-> Do("LoadFileToMemory", "ward", "false"),
   ward  |-> Ward("Memory", "crypt"),
   crypt |-> Do("aes256_crypt_buffer_v2", "wardText", "false"),
   wardText |-> Ward("text", "save"),
   save  |-> Must(Do("SaveBinaryFile", "true", "false"))]

aes256_encrypt_file == CryptedFile
aes256_decrypt_file == CryptedFile
-----------------------------------------------------------------------------
FileBodies ==
  [get_mapped_file_name |-> get_mapped_file_name, query_dos_device |-> query_dos_device,
   get_filepath_by_handle |-> get_filepath_by_handle, GetMappedFileName |-> GetMappedFileName,
   nt_name_to_dos_name |-> nt_name_to_dos_name, is_file_existsW |-> is_file_existsW,
   is_dir |-> is_dir, is_file |-> is_file, get_disk_numbers |-> get_disk_numbers,
   get_disk_volume_info |-> get_disk_volume_info,
   dump_all_disk_drive_layout |-> dump_all_disk_drive_layout, dump_boot_area |-> dump_boot_area,
   open_file_to_write |-> open_file_to_write, open_file_to_read |-> open_file_to_read,
   get_file_size_of_handle |-> get_file_size_of_handle, get_file_size |-> get_file_size,
   get_file_version |-> get_file_version, get_file_company_name |-> get_file_company_name,
   get_file_original_name |-> get_file_original_name,
   write_to_file_of_handle |-> write_to_file_of_handle, write_to_filew |-> write_to_filew,
   write_to_filea |-> write_to_filea,
   get_file_position |-> get_file_position, set_file_position |-> set_file_position,
   set_file_size |-> set_file_size, read_line |-> read_line,
   SaveToFileAsUTF8W |-> SaveToFileAsUTF8W, SaveToFileAsUTF8A |-> SaveToFileAsUTF8A,
   LoadFileToMemory |-> LoadFileToMemory, SaveBinaryFile |-> SaveBinaryFile,
   OpenFileContext |-> OpenFileContext, CloseFileContext |-> CloseFileContext,
   find_files |-> find_files, FindSubDirectory |-> FindSubDirectory,
   WUCreateDirectory |-> WUCreateDirectory, WUDeleteDirectoryW |-> WUDeleteDirectoryW,
   create_directory_ex |-> create_directory_ex, get_system_dir |-> get_system_dir,
   GetImageFullPathFromPredefinedPathW |-> GetImageFullPathFromPredefinedPathW,
   GetImageFullPathFromPredefinedPathA |-> GetImageFullPathFromPredefinedPathA,
   get_windows_dir |-> get_windows_dir, get_environment_value |-> get_environment_value,
   get_short_file_name |-> get_short_file_name,
   WUGetCurrentDirectoryW |-> WUGetCurrentDirectoryW,
   WUGetCurrentDirectoryA |-> WUGetCurrentDirectoryA, get_temp_dirW |-> get_temp_dirW,
   get_temp_dirA |-> get_temp_dirA, get_temp_fileW |-> get_temp_fileW,
   get_module_path |-> get_module_path, get_current_module_path |-> get_current_module_path,
   get_current_module_dir |-> get_current_module_dir,
   get_current_module_file |-> get_current_module_file,
   get_default_browser |-> get_default_browser, Win32ErrorToString |-> Win32ErrorToString,
   get_module_pathEx |-> get_module_pathEx, get_module_dirEx |-> get_module_dirEx,
   get_current_module_pathEx |-> get_current_module_pathEx,
   get_current_module_dirEx |-> get_current_module_dirEx,
   get_current_module_fileEx |-> get_current_module_fileEx,
   load_env_values |-> load_env_values, guid_to_stringw |-> guid_to_stringw,
   guid_to_string |-> guid_to_string, clear_console |-> clear_console,
   open_driver |-> open_driver, io_control |-> io_control, bin_to_hexw |-> bin_to_hexw,
   WriteEventLogEntry |-> WriteEventLogEntry, WriteErrorLogEntry |-> WriteErrorLogEntry,
   create_guid |-> create_guid, wstring_to_guid |-> wstring_to_guid,
   string_to_guid |-> string_to_guid, attach_console |-> attach_console,
   MbsToWcsEx |-> MbsToWcsEx, WcsToMbsEx |-> WcsToMbsEx, WcsToMbsUTF8Ex |-> WcsToMbsUTF8Ex,
   Utf8MbsToWcsEx |-> Utf8MbsToWcsEx, Utf8MbsToWcs |-> Utf8MbsToWcs,
   bin_to_hexa |-> bin_to_hexa, bin_to_hexa_fast |-> bin_to_hexa_fast,
   bin_to_hexw_fast |-> bin_to_hexw_fast, aes_init_v2 |-> aes_init_v2,
   aes_encrypt |-> aes_encrypt, aes_decrypt |-> aes_decrypt,
   aes256_crypt_buffer_v2 |-> aes256_crypt_buffer_v2,
   aes256_encrypt_file |-> aes256_encrypt_file, aes256_decrypt_file |-> aes256_decrypt_file]
=============================================================================
