---------------------------- MODULE NetworkCalls ----------------------------
(* The network and accounts: src/net_util.cpp, send_ping.h, account_info.cpp, *)
(* machine_id.cpp.                                                           *)
EXTENDS CallSteps, TLC

init_net_util == [begin |-> Take("winsock", "hand", "false"), hand |-> Hand("winsock", "true")]
cleanup_net_util == [begin |-> Receive("winsock", "give"), give |-> Give("winsock", "true")]

\* A buffer of the size asked for, under a guard, and the query that fills it.
Answered(r) == [begin  |-> Call("malloc", "false"),
                malloc |-> Guard(r, "query", "false"),
                query  |-> Deed("true", "false")]

get_host_name == Answered("buf")
SocketAddressToStr == Answered("buf")
SocketAddressToStr_of_list == [begin |-> Must(Do("SocketAddressToStr", "true", "false"))]

\* The list of the adapters that are no loopback belongs to the caller.
get_inet_adapters ==
  [begin  |-> Call("malloc", "false"),
   malloc |-> Guard("cptr", "query", "false"),
   query  |-> Deed("new", "false"),
   new    |-> New("adapters", "hand"),
   hand   |-> Hand("adapters", "true")]

\* Addresses to text and back.
Converted == [begin |-> Deed("true", "false")]

ipv4_to_str == Converted
ipv4_to_strw == Converted
ipv6_to_str == Converted
ipv6_to_strw == Converted
str_to_ipv4 == Converted
str_to_ipv4w == Converted
\* "false" is 0.
str_to_ipv4_value == [begin |-> Must(Do("str_to_ipv4", "true", "false"))]
str_to_ipv4w_value == [begin |-> Must(Do("str_to_ipv4w", "true", "false"))]
str_to_ipv6 == Converted
str_to_ipv6w == Converted

\* The loop moves dns_record itself: what DnsRecordListFree is given is the end of the
\* list.  Without names there is no loop.
ip_to_dns ==
  [begin |-> Must(Take("dns_record", "names", "false")),
   names |-> Either("true", "free"),
   free  |-> Give("dns_record", "true")]

\* The same, with nothing to do when neither list is wanted.
dns_to_ip == [begin |-> Either("query", "true"),
              query |-> Take("dns_record", "true", "false")]

\* What is read off the adapters, which are deleted in any case.
OfAdapters(looked) == [begin |-> Do("get_inet_adapters", "look", "false"),
                       look  |-> looked,
                       delete |-> Give("adapters", "true"),
                       none  |-> Give("adapters", "false")]

get_ip_list_v4 == OfAdapters(Call("delete", "delete"))
get_broadcast_list_v4 == OfAdapters(Call("delete", "delete"))
\* "false" is 127.0.0.1: with gateway and DNS, with gateway, any address at all.
get_representative_ip_v4 == OfAdapters(Deed("delete", "none"))
\* "false" is the address of zeros.
get_mac_by_ip_v4 ==
  [address |-> Do("str_to_ipv4w", "adapters", "false"),
   adapters |-> Do("get_inet_adapters", "look", "false"),
   begin |-> Call("address", "false")] @@ OfAdapters(Deed("delete", "none"))

\* The guard is made only after the answer has come.
get_addr_infow ==
  [begin |-> Must(Take("result", "ward", "false")), ward |-> Ward("result", "true")]

\* The loop is left by break: both are released whatever happened, the handle also
\* when there is none.
send_ping ==
  [begin |-> Call("address", "false"),
   address |-> Do("str_to_ipv4w", "malloc", "false"),
   malloc |-> Take("pong_buf", "create", "false"),
   create |-> Take("h_icmp", "echo", "free"),
   echo  |-> Deed("free", "free"),
   free  |-> Give("pong_buf", "close"),
   close |-> Give("h_icmp", "ret")]
-----------------------------------------------------------------------------
(* Accounts *)

\* The guard is made of the pointer before the call sets it: it frees nothing.
psid_to_wstr_sid == [begin |-> Must(Take("sid_buf", "true", "false"))]

get_account_info_by_name ==
  [begin |-> Must(Take("user_info", "hand", "false")), hand |-> Hand("user_info", "true")]

\* A user that cannot be asked about is left out; the list goes on while there is
\* more, and ends with true when the first call has failed.
get_account_infos ==
  [begin |-> Must(Take("buffer", "user", "true")),
   user  |-> Either("info", "free"),
   info  |-> Do("get_account_info_by_name", "sid", "user"),
   sid   |-> Do("psid_to_wstr_sid", "new", "new"),
   new   |-> New("account", "list"),
   list  |-> Hand("account", "freeInfo"),
   freeInfo |-> Give("user_info", "user"),
   free  |-> Give("buffer", "more"),
   more  |-> Either("begin", "true")]
-----------------------------------------------------------------------------
\* Whatever fails, the network library is released.
generate_machine_id ==
  [begin |-> Do("init_net_util", "adapters", "false"),
   adapters |-> Do("get_inet_adapters", "delete", "cleanup"),
   delete |-> Give("adapters", "volume"),
   volume |-> Call("cpuid", "cleanup"),
   cpuid |-> Do("bin_to_hexa", "digest", "cleanup"),
   digest |-> Must(Do("bin_to_hexa_fast", "cleanup", "cleanup")),
   cleanup |-> Do("cleanup_net_util", "ret", "ret")]

-----------------------------------------------------------------------------
NetworkBodies ==
  [init_net_util |-> init_net_util, cleanup_net_util |-> cleanup_net_util,
   get_host_name |-> get_host_name, SocketAddressToStr |-> SocketAddressToStr,
   get_inet_adapters |-> get_inet_adapters,
   ipv4_to_str |-> ipv4_to_str, ipv4_to_strw |-> ipv4_to_strw,
   ipv6_to_str |-> ipv6_to_str, ipv6_to_strw |-> ipv6_to_strw,
   str_to_ipv4 |-> str_to_ipv4, str_to_ipv4w |-> str_to_ipv4w,
   SocketAddressToStr_of_list |-> SocketAddressToStr_of_list,
   str_to_ipv4_value |-> str_to_ipv4_value, str_to_ipv4w_value |-> str_to_ipv4w_value,
   str_to_ipv6 |-> str_to_ipv6, str_to_ipv6w |-> str_to_ipv6w,
   ip_to_dns |-> ip_to_dns, dns_to_ip |-> dns_to_ip,
   get_ip_list_v4 |-> get_ip_list_v4, get_broadcast_list_v4 |-> get_broadcast_list_v4,
   get_representative_ip_v4 |-> get_representative_ip_v4,
   get_mac_by_ip_v4 |-> get_mac_by_ip_v4, get_addr_infow |-> get_addr_infow,
   send_ping |-> send_ping, psid_to_wstr_sid |-> psid_to_wstr_sid,
   get_account_info_by_name |-> get_account_info_by_name,
   get_account_infos |-> get_account_infos, generate_machine_id |-> generate_machine_id]
=============================================================================
