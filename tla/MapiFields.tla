----------------------------- MODULE MapiFields -----------------------------
(***************************************************************************)
(* pst_process of libpst.c: what one decoded MAPI property does to an item *)
(* and to the attachment it is paired with, and pst_freeItem: what is      *)
(* given back.  A field is a pair <<part, name>>, where the part is the    *)
(* item itself, one of the structs hanging off it or the attachment.       *)
(*                                                                         *)
(* An element (pst_mapi_element) is a record                               *)
(*   field  where its case of the switch stores it,                        *)
(*   type   "text" (0x1e, 0x1f), "binary" (0x102), "time" (0x40 of eight   *)
(*          bytes), "bool" (0x0b), "int" (0x02, 0x03), "array" (0x101e) or *)
(*          "later": no data, and the type field holds an id2,             *)
(*   size   0 or 1: whether it has any data,                               *)
(*   value  what matters of a number: an id2, a method, a sequence number, *)
(*   text   what matters of a string: the components of a message class.   *)
(***************************************************************************)
EXTENDS Integers, Sequences, FiniteSets, SequencesExt

Of(part, names) == {part} \X names

\* cases 0x0002 to 0x0059 of pst_process: how the message was sent
Envelope ==
  [text  |-> Of("item", {"subject"})
            \cup Of("email", {"outlook_sender", "outlook_received_name1", "outlook_sender_name",
                  "outlook_recipient_name", "reply_to", "outlook_recipient",
                  "outlook_recipient2"}),
   time  |-> Of("email", {"report_time", "sent_date"}),
   bin   |-> {},
   entry |-> {},
   plain |-> Of("email", {"autoforward", "importance", "delivery_report", "priority",
                  "read_receipt", "original_sensitivity", "sensitivity",
                  "message_to_me", "message_cc_me", "message_recip_me"})
            \cup Of("item", {"private_member"})]

\* cases 0x0063 to 0x0E1D: senders, recipients, reports
Senders ==
  [text  |-> Of("email", {"sender_access", "sender_address", "processed_subject",
                  "original_bcc", "original_cc", "original_to", "recip_access",
                  "recip_address", "recip2_access", "recip2_address", "header",
                  "outlook_sender_name2", "supplementary_info", "outlook_sender2",
                  "sender2_access", "sender2_address", "bcc_address",
                  "cc_address", "sentto_address", "outlook_normalized_subject"}),
   time  |-> Of("email", {"arrival_date"}),
   bin   |-> Of("email", {"conversation_index"}),
   entry |-> Of("email", {"sentmail_folder"}),
   plain |-> Of("email", {"flags"})
            \cup Of("item", {"response_requested", "message_size"})
            \cup Of("email", {"ndr_reason_code", "ndr_diag_code", "reply_requested",
                  "ndr_status_code", "delete_after_submit"})]

\* cases 0x0E1F to 0x300B: bodies and common properties
Bodies ==
  [text  |-> Of("item", {"body", "file_as", "comment"})
            \cup Of("email", {"report_text", "rtf_body_tag", "htmlbody", "messageid",
                  "in_reply_to", "return_path_address", "outlook_search_key"})
            \cup Of("contact", {"address1_transport", "address1"}),
   time  |-> Of("item", {"create_date", "modify_date"}),
   bin   |-> Of("item", {"record_key"})
            \cup Of("email", {"rtf_compressed"}),
   entry |-> {},
   plain |-> Of("email", {"rtf_in_sync", "rtf_body_crc", "rtf_body_char_count",
                  "rtf_ws_prefix_count", "rtf_ws_trailing_count"})]

\* cases 0x35DF to 0x3617: message store and folder
StoreAndFolder ==
  [text  |-> {},
   time  |-> {},
   bin   |-> {},
   entry |-> Of("message_store", {"top_of_personal_folder", "default_outbox_folder",
                  "deleted_items_folder", "sent_items_folder",
                  "user_views_folder", "common_view_folder",
                  "search_root_folder"}),
   plain |-> Of("message_store", {"valid_mask"})
            \cup Of("folder", {"item_count", "unseen_item_count", "subfolder", "assoc_count"})]

\* cases 0x3704 to 0x3712: the attachment, skipped (NULL_CHECK) without one
AttachFields ==
  [text  |-> Of("attach", {"filename1", "filename2", "mimetype", "content_id"}),
   time  |-> {},
   bin   |-> {},
   entry |-> {},
   plain |-> Of("attach", {"method", "position", "sequence"})]

\* cases 0x3A00 to 0x3A21
ContactNames ==
  [text  |-> Of("contact", {"account_name", "callback_phone", "suffix", "first_name", "gov_id",
                  "business_phone", "home_phone", "initials", "keyword",
                  "language", "location", "common_name", "org_id", "surname",
                  "def_postal_address", "company_name", "job_title", "department",
                  "office_loc", "primary_phone", "business_phone2",
                  "mobile_phone", "radio_phone", "car_phone", "other_phone",
                  "transmittable_display_name", "pager_phone"}),
   time  |-> {},
   bin   |-> {},
   entry |-> {},
   plain |-> Of("email", {"conversion_prohibited"})
            \cup Of("contact", {"mail_permission"})]

\* cases 0x3A23 to 0x3A64
ContactPlaces ==
  [text  |-> Of("contact", {"primary_fax", "business_fax", "home_fax", "business_country",
                  "business_city", "business_state", "business_street",
                  "business_postal_code", "business_po_box", "telex",
                  "isdn_phone", "assistant_phone", "home_phone2",
                  "assistant_name", "hobbies", "middle_name",
                  "display_name_prefix", "profession", "pref_name", "spouse_name",
                  "computer_name", "customer_id", "ttytdd_phone", "ftp_site",
                  "manager_name", "nickname", "personal_homepage",
                  "business_homepage", "company_main_phone", "home_city",
                  "home_country", "home_postal_code", "home_state", "home_street",
                  "home_po_box", "other_city", "other_country",
                  "other_postal_code", "other_state", "other_street",
                  "other_po_box"}),
   time  |-> Of("contact", {"wedding_anniversary", "birthday"}),
   bin   |-> {},
   entry |-> {},
   plain |-> Of("contact", {"rich_text", "gender"})]

\* cases 0x3FDE to 0x7C07
Various ==
  [text  |-> {},
   time  |-> {},
   bin   |-> Of("item", {"predecessor_change"})
            \cup Of("email", {"encrypted_htmlbody", "encrypted_body"}),
   entry |-> Of("message_store", {"top_of_folder"}),
   plain |-> Of("item", {"internet_cpid", "message_codepage"})
            \cup Of("message_store", {"pwd_chksum"})]

\* cases 0x8005 to 0x80D8
ContactAddresses ==
  [text  |-> Of("contact", {"fullname", "home_address", "business_address", "other_address",
                  "work_address_street", "work_address_city",
                  "work_address_state", "work_address_postalcode",
                  "work_address_country", "work_address_postofficebox",
                  "address1_transport", "address1", "address1_desc", "address1a",
                  "address2_transport", "address2", "address2_desc", "address2a",
                  "address3_transport", "address3", "address3_desc", "address3a",
                  "free_busy_address"}),
   time  |-> {},
   bin   |-> {},
   entry |-> {},
   plain |-> {}]

\* cases 0x8205 to 0x851f
AppointmentFields ==
  [text  |-> Of("appointment", {"location", "recurrence_description", "timezonestring",
                  "alarm_filename"}),
   time  |-> Of("appointment", {"start", "end", "recurrence_start", "recurrence_end"}),
   bin   |-> Of("appointment", {"recurrence_data"}),
   entry |-> {},
   plain |-> Of("appointment", {"showas", "label", "all_day", "is_recurring",
                  "recurrence_type", "alarm_minutes", "alarm"})]

\* cases 0x8530 to 0x8712
LateFields ==
  [text  |-> Of("contact", {"followup", "mileage", "billing_information"})
            \cup Of("item", {"outlook_version"})
            \cup Of("journal", {"type", "description"}),
   time  |-> Of("appointment", {"reminder"})
            \cup Of("journal", {"start", "end"}),
   bin   |-> {},
   entry |-> {},
   plain |-> {}]

Tables == {Envelope, Senders, Bodies, StoreAndFolder, AttachFields, ContactNames,
           ContactPlaces, Various, ContactAddresses, AppointmentFields, LateFields}

\* The fields a macro LIST_COPY_* of that kind stores to.
Fields(kind) == UNION {t[kind] : t \in Tables}

\* Cases with code of their own.
SpecialFields == {<<"item", "message_class">>, <<"item", "container_class">>,
                  <<"item", "extra_fields">>, <<"item", "unknown">>,
                  <<"attach", "data">>, <<"attach", "id2_val">>}

AllFields == SpecialFields \cup UNION {Fields(k) : k \in {"text", "time", "bin", "entry", "plain"}}

(* pst_freeItem and pst_free_attach: the buffers they free, part by part. *)
FreedEmail == Of("email", {"arrival_date", "cc_address", "bcc_address",
                  "conversation_index", "encrypted_body", "encrypted_htmlbody", "header",
                  "htmlbody", "in_reply_to", "messageid", "original_bcc", "original_cc",
                  "original_to", "outlook_recipient", "outlook_recipient_name",
                  "outlook_recipient2", "outlook_sender", "outlook_sender_name",
                  "outlook_sender2", "processed_subject", "recip_access", "recip_address",
                  "recip2_access", "recip2_address", "reply_to", "rtf_body_tag",
                  "rtf_compressed", "return_path_address", "sender_access", "sender_address",
                  "sender2_access", "sender2_address", "sent_date", "sentmail_folder",
                  "sentto_address", "report_text", "report_time", "supplementary_info",
                  "outlook_received_name1", "outlook_sender_name2",
                  "outlook_normalized_subject", "outlook_search_key"})

FreedContact == Of("contact", {"account_name", "address1", "address1a", "address1_desc",
                    "address1_transport", "address2", "address2a", "address2_desc",
                    "address2_transport", "address3", "address3a", "address3_desc",
                    "address3_transport", "assistant_name", "assistant_phone",
                    "billing_information", "birthday", "business_address", "business_city",
                    "business_country", "business_fax", "business_homepage", "business_phone",
                    "business_phone2", "business_po_box", "business_postal_code",
                    "business_state", "business_street", "callback_phone", "car_phone",
                    "company_main_phone", "company_name", "computer_name", "customer_id",
                    "def_postal_address", "department", "display_name_prefix", "first_name",
                    "followup", "free_busy_address", "ftp_site", "fullname", "gov_id",
                    "hobbies", "home_address", "home_city", "home_country", "home_fax",
                    "home_po_box", "home_phone", "home_phone2", "home_postal_code",
                    "home_state", "home_street", "initials", "isdn_phone", "job_title",
                    "keyword", "language", "location", "manager_name", "middle_name",
                    "mileage", "mobile_phone", "nickname", "office_loc", "common_name",
                    "org_id", "other_address", "other_city", "other_country", "other_phone",
                    "other_po_box", "other_postal_code", "other_state", "other_street",
                    "pager_phone", "personal_homepage", "pref_name", "primary_fax",
                    "primary_phone", "profession", "radio_phone", "spouse_name", "suffix",
                    "surname", "telex", "transmittable_display_name", "ttytdd_phone",
                    "wedding_anniversary", "work_address_street", "work_address_city",
                    "work_address_state", "work_address_postalcode", "work_address_country",
                    "work_address_postofficebox"})

FreedOther ==
  Of("item", {"ascii_type", "body_charset", "body", "subject", "comment", "create_date",
      "file_as", "modify_date", "outlook_version", "record_key", "predecessor_change",
      "extra_fields"})
  \cup Of("message_store", {"top_of_personal_folder", "default_outbox_folder",
           "deleted_items_folder", "sent_items_folder", "user_views_folder",
           "common_view_folder", "search_root_folder", "top_of_folder"})
  \cup Of("journal", {"start", "end", "type"})
  \cup Of("appointment", {"start", "end", "location", "reminder", "alarm_filename",
           "timezonestring", "recurrence_description", "recurrence_data", "recurrence_start",
           "recurrence_end"})

FreedAttach == Of("attach", {"filename1", "filename2", "mimetype", "content_id", "data"})

FreedFields == FreedEmail \cup FreedContact \cup FreedOther \cup FreedAttach

-----------------------------------------------------------------------------
(* pst_strincmp(lit, cls, n) = 0: the strings agree up to the end of the   *)
(* shorter one, so a class that is only a beginning of the literal matches *)
(* as well.  A class is the sequence of its components.                    *)
SameStart(lit, cls) == IsPrefix(lit, cls) \/ IsPrefix(cls, lit)

FirstMatch(table, cls) ==
  LET hits == {i \in DOMAIN table : IF table[i].exact THEN table[i].class = cls
                                                      ELSE SameStart(table[i].class, cls)}
  IN IF hits = {} THEN "OTHER" ELSE table[CHOOSE i \in hits : \A j \in hits : i <= j].type

Row(exact, class, type) == [exact |-> exact, class |-> class, type |-> type]

MessageClasses ==
  <<Row(FALSE, <<"IPM", "Note">>, "NOTE"), Row(TRUE, <<"IPM">>, "NOTE"),
    Row(FALSE, <<"IPM", "Contact">>, "CONTACT"), Row(FALSE, <<"REPORT", "IPM", "Note">>, "REPORT"),
    Row(FALSE, <<"IPM", "Activity">>, "JOURNAL"), Row(FALSE, <<"IPM", "Appointment">>, "APPOINTMENT"),
    Row(FALSE, <<"IPM", "Schedule", "Meeting">>, "SCHEDULE"),
    Row(FALSE, <<"IPM", "StickyNote">>, "STICKYNOTE"), Row(FALSE, <<"IPM", "Task">>, "TASK")>>

ContainerClasses ==
  <<Row(FALSE, <<"IPF", "Note">>, "NOTE"), Row(FALSE, <<"IPF", "Imap">>, "NOTE"),
    Row(TRUE, <<"IPF">>, "NOTE"), Row(FALSE, <<"IPF", "Contact">>, "CONTACT"),
    Row(FALSE, <<"IPF", "Journal">>, "JOURNAL"), Row(FALSE, <<"IPF", "Appointment">>, "APPOINTMENT"),
    Row(FALSE, <<"IPF", "StickyNote">>, "STICKYNOTE"), Row(FALSE, <<"IPF", "Task">>, "TASK")>>

ElementTypes == {"text", "binary", "time", "bool", "int", "array", "later", "external"}
Element == [field : AllFields, type : ElementTypes, size : Nat, value : Int, text : Seq(STRING)]

-----------------------------------------------------------------------------
(* The item: the structs allocated for it, the buffers its fields hold,    *)
(* its type, the last block that was processed into it, its attachments.   *)
NewItem == [parts |-> {}, held |-> {}, type |-> "NONE", block_id |-> 0, attach |-> <<>>]

NewAttach == [held |-> {}, id2_val |-> 0, i_id |-> 0, id2_head |-> 0, method |-> 0, sequence |-> 0]

Textual(e) == e.type \in {"text", "binary"}

(* LIST_COPY_CSTR / _TIME / _BIN / _ENTRYID: the buffers held afterwards.  *)
CopyText(held, e) == IF Textual(e) THEN held \cup {e.field} ELSE held \ {e.field}
CopyTime(held, e) == IF e.type = "time" THEN held \cup {e.field} ELSE held
CopyBin(held, e) == IF e.size > 0 THEN held \cup {e.field} ELSE held \ {e.field}
CopyEntry(held, e) == held \cup {e.field}

Copied(held, e) ==
  CASE e.field \in Fields("text") -> CopyText(held, e)
    [] e.field \in Fields("time") -> CopyTime(held, e)
    [] e.field \in Fields("bin") \cup {<<"attach", "data">>} -> CopyBin(held, e)
    [] e.field \in Fields("entry") -> CopyEntry(held, e)
    [] OTHER -> held

(* MALLOC_EMAIL and its like: a struct is allocated before the value is    *)
(* looked at, whatever the value is.                                       *)
Allocated(parts, e) == IF e.field[1] = "item" THEN parts ELSE parts \cup {e.field[1]}

(* autoforward and delivery_report are the two that test the type first.   *)
Refused(e) == /\ e.field \in Of("email", {"autoforward", "delivery_report"})
              /\ e.type # "bool"

ClassType(e, held) ==
  IF e.field[2] = "message_class" THEN FirstMatch(MessageClasses, e.text)
  ELSE FirstMatch(ContainerClasses, IF <<"item", "ascii_type">> \in held THEN e.text ELSE <<>>)

AsciiType == <<"item", "ascii_type">>

(* 0x001A only acts on text; 0x3613 on anything, and takes NULL for "".    *)
SetClass(item, e) ==
  LET held == CopyText(item.held, [e EXCEPT !.field = AsciiType])
  IN IF e.field[2] = "message_class" /\ e.type # "text" THEN item
     ELSE [item EXCEPT !.held = held, !.type = ClassType(e, held)]

(* PST_ATTRIB_HEADER: one extra field, or one for every string of an array *)
(* (0x101e); a Content-Type with a charset also sets body_charset.         *)
AddHeader(item, e) ==
  LET kept == IF Textual(e) \/ (e.type = "array" /\ e.size > 0) THEN {e.field} ELSE {}
      charset == IF Textual(e) /\ e.text = <<"charset">> THEN {<<"item", "body_charset">>} ELSE {}
  IN [item EXCEPT !.held = @ \cup kept \cup charset]

ProcessItem(item, e) ==
  CASE e.field \in {<<"item", "message_class">>, <<"item", "container_class">>} -> SetClass(item, e)
    [] e.field = <<"item", "extra_fields">> -> AddHeader(item, e)
    [] e.field = <<"item", "unknown">> \/ Refused(e) -> item
    [] OTHER -> [item EXCEPT !.parts = Allocated(@, e), !.held = Copied(@, e)]

(* The cases guarded by NULL_CHECK(attach).  Data that is to be read later *)
(* leaves its id2, and so does 0x67F2.                                     *)
ProcessAttach(a, e) ==
  CASE e.field = <<"attach", "data">> /\ e.type = "later" -> [a EXCEPT !.id2_val = e.value]
    [] e.field = <<"attach", "id2_val">> -> [a EXCEPT !.id2_val = IF e.size > 0 THEN e.value ELSE 0]
    [] e.field = <<"attach", "method">> -> [a EXCEPT !.method = IF e.size > 0 THEN e.value ELSE 0]
    [] e.field = <<"attach", "sequence">> -> [a EXCEPT !.sequence = IF e.size > 0 THEN e.value ELSE 0]
    [] OTHER -> [a EXCEPT !.held = Copied(@, e)]

(* One element, for the attachment at position k (none beyond the last).   *)
ProcessElement(item, k, e) ==
  IF e.field[1] # "attach" THEN ProcessItem(item, e)
  ELSE IF k \in DOMAIN item.attach THEN [item EXCEPT !.attach[k] = ProcessAttach(@, e)]
  ELSE item

ProcessRow(item, k, row) ==
  LET done[n \in 0 .. Len(row)] == IF n = 0 THEN item ELSE ProcessElement(done[n - 1], k, row[n])
  IN done[Len(row)]

(* The rows in the order of the list; the attachment moves on with them.   *)
(* k = 0 stands for a NULL attachment, which stays NULL.                   *)
Process(block_id, rows, item, k) ==
  LET done[n \in 0 .. Len(rows)] ==
        IF n = 0 THEN [item EXCEPT !.block_id = block_id]
        ELSE ProcessRow(done[n - 1], IF k = 0 THEN 0 ELSE k + n - 1, rows[n])
  IN done[Len(rows)]

(* Everything an item holds, and what is left of it after pst_freeItem.    *)
Holdings(item) == item.held \cup UNION {a.held : a \in ToSet(item.attach)}
Unfreed(item) == Holdings(item) \ FreedFields
=============================================================================
