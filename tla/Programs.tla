------------------------------ MODULE Programs ------------------------------
(***************************************************************************)
(* The example programs that Programs_proofs has theorems about, for any   *)
(* values of their constants: the packet sniffer, ESP-NOW, fine timing     *)
(* measurement, the throughput test, and the programs that enrol a         *)
(* station.  They share no state.                                          *)
(***************************************************************************)
EXTENDS Integers

CONSTANTS
  Numbers, WorkQueueLen, MaxSniffed, MaxStarts,            \* of Sniffer
  Senders, Magics, SendCount, QueueSize,                   \* of EspNow
  Aps, Attempts, Leveled, MaxEvents, MaxCommands,          \* of Ftm
  Seconds, DefaultInterval, DefaultTime, MaxBreaks, MaxTyped,   \* of Iperf
  MaxCreds, Retries,                                       \* of Enrollment
  Absent                                                   \* None of Ftm and Iperf

VARIABLES
  interf, is_running, packets_to_sniff, work_queue, sem, promiscuous, is_opened, is_writing,
  link_type, at, items, holds, sn_callback, heap, packets, starts, broken, meddled, late, crashed,
  magic, task, broadcast, unicast, state, unicasts, peers, espQueue, air, unicastsSent, full,
  s_reconnect, s_retry_num, group_bits, g_ap_started, g_ap_bssid, g_ap_config, g_ftm_report,
  g_ap_list_buffer, g_scan_ap_num, wifi_mode, wifi_link, wanted, posted_events, airConfig, measuring,
  console, name, retry_scan, to_measure, ftm_session, retries, wasOpen, leaks, commands, losses,
  reconnect, ip_bits, ip_mode, ip_link, ip_events, address, prompt, ip_netif, options, test, wants,
  missed, breaks, typed,
  en_program, en_retry, en_ap, en_creds, en_bits, en_group, en_handlers, en_task, en_config,
  en_link, en_enrol, en_granted, en_events, en_lost, en_refused, en_early, en_crashed

snifferVars == <<interf, is_running, packets_to_sniff, work_queue, sem, promiscuous, is_opened,
                 is_writing, link_type, at, items, holds, sn_callback, heap, packets, starts, broken,
                 meddled, late, crashed>>
espNowVars == <<magic, task, broadcast, unicast, state, unicasts, peers, espQueue, air, unicastsSent, full>>
ftmVars == <<s_reconnect, s_retry_num, group_bits, g_ap_started, g_ap_bssid, g_ap_config, g_ftm_report,
             g_ap_list_buffer, g_scan_ap_num, wifi_mode, wifi_link, wanted, posted_events, airConfig,
             measuring, console, name, retry_scan, to_measure, ftm_session, retries, wasOpen, leaks,
             commands, losses>>
iperfVars == <<reconnect, ip_bits, ip_mode, ip_link, ip_events, address, prompt, ip_netif, options,
               test, wants, missed, breaks, typed>>
enrollVars == <<en_program, en_retry, en_ap, en_creds, en_bits, en_group, en_handlers, en_task, en_config,
               en_link, en_enrol, en_granted, en_events, en_lost, en_refused, en_early,
               en_crashed>>

Sniff == INSTANCE Sniffer WITH
  QueueLen <- WorkQueueLen, MaxPackets <- MaxSniffed, pc <- at, left <- items, callback <- sn_callback
Peers == INSTANCE EspNow WITH
  Devices <- Senders, Count <- SendCount, count <- unicasts, queue <- espQueue, sent <- unicastsSent
Measure == INSTANCE Ftm WITH
  None <- Absent, bits <- group_bits, mode <- wifi_mode, link <- wifi_link, events <- posted_events,
  pc <- console, peer <- to_measure, session <- ftm_session, faults <- losses
Throughput == INSTANCE Iperf WITH
  None <- Absent, MaxLosses <- MaxBreaks, MaxCommands <- MaxTyped,
  bits <- ip_bits, mode <- ip_mode, link <- ip_link, events <- ip_events, pc <- prompt,
  netif <- ip_netif, losses <- breaks, commands <- typed
Enroll == INSTANCE Enrollment WITH
  program <- en_program, s_retry_num <- en_retry, ap_idx <- en_ap, s_ap_creds_num <- en_creds,
  bits <- en_bits, group <- en_group, handlers <- en_handlers, task <- en_task,
  config <- en_config, link <- en_link, enrol <- en_enrol, granted <- en_granted, events <- en_events,
  lost <- en_lost, refused <- en_refused, early <- en_early, crashed <- en_crashed

ASSUME ProgramsAssumption ==
  Sniff!NumbersOK /\ Peers!DevicesOK /\ Measure!ApsOK /\ Throughput!TimesOK /\ Enroll!RetriesOK

-----------------------------------------------------------------------------
(* The sniffer's payloads are freed once and captured into an open session.*)
SnifferIsSound == Sniff!SnifferIsSound

(* An ESP-NOW device has one send under way, and sends against smaller     *)
(* magic only; the measuring program knows its link, its report, its list; *)
(* the throughput program knows its address and goes on trying to get one; *)
(* a station that enrols goes on trying, and its program is told the truth.*)
ExamplesAreSound ==
  /\ Peers!SendsAreChained /\ Peers!LargerSends
  /\ Measure!FtmIsSound
  /\ Throughput!IperfIsSound
  /\ Enroll!EnrollmentIsSound
=============================================================================
