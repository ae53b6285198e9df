--------------------------- MODULE WorkflowRegistry ---------------------------
(***************************************************************************)
(* The workflows that are known without an LLM: their steps and the        *)
(* entities they need. An entity stands for its canonical key; texts,      *)
(* times and settings of the reasoning are left out.                       *)
(***************************************************************************)
EXTENDS PlanGraph

-----------------------------------------------------------------------------
(* Steps. "mentions" are the entities and "refs" the steps whose values the *)
(* arguments of a step ask for.                                             *)

Step(n, role, tool, follows, reads, gate_id, mentions, refs) ==
    [step |-> n, role |-> role, tool |-> tool, after |-> follows, context |-> reads,
     gate |-> gate_id, mentions |-> mentions, refs |-> refs]

Fetcher(tool, mentions) == Step(1, "Fetcher", tool, <<>>, {}, "none", mentions, {})
Reasoner(n, reads) == Step(n, "Reasoner", "reasoner", SetToSeq(reads), reads, "none", {}, {})
Resolver(n) == Step(n, "Resolver", "system.confirm", <<n - 1>>, {n - 1}, "gate-confirm", {}, {})
Booker(n, tool, mentions, refs) ==
    Step(n, "Booker", tool, IF n = 1 THEN <<>> ELSE <<n - 1>>, {}, "gate-execute", mentions, refs)

\* The four shapes of the registry.
Reads(tool) == <<Fetcher(tool, {}), Reasoner(2, {1})>>
Direct(tool, mentions) == <<Booker(1, tool, mentions, {})>>
Confirmed(tool, mentions) == <<Reasoner(1, {}), Resolver(2), Booker(3, tool, mentions, {})>>
Checked(finder, sought, tool, mentions, refs) ==
    <<Fetcher(finder, sought), Reasoner(2, {1}), Resolver(3), Booker(4, tool, mentions, refs)>>

Workflow(name, steps, must, may) ==
    [name |-> name, steps |-> steps, must |-> must, may |-> may]

-----------------------------------------------------------------------------
(* The registry *)

send_email_gmail == Workflow("send_email_gmail",
    Confirmed("GMAIL_SEND_EMAIL", {"body", "recipient", "subject"}),
    {"recipient", "subject", "body"}, {})
schedule_meeting_google_calendar == Workflow("schedule_meeting_google_calendar",
    Checked("GOOGLECALENDAR_FIND_EVENT", {"title"},
    "GOOGLECALENDAR_CREATE_EVENT", {"attendee", "duration", "timezone",
    "title"}, {2}), {"attendee", "date_time", "title", "timezone"},
    {"duration"})
create_event_google_calendar == Workflow("create_event_google_calendar",
    Checked("GOOGLECALENDAR_FIND_EVENT", {"title"},
    "GOOGLECALENDAR_CREATE_EVENT", {"duration", "timezone", "title"}, {2}),
    {"title", "date_time", "timezone"}, {"duration"})
draft_email_gmail == Workflow("draft_email_gmail",
    Direct("GMAIL_CREATE_DRAFT", {"body", "recipient", "subject"}),
    {"subject", "body"}, {"recipient"})
read_email_gmail == Workflow("read_email_gmail",
    Reads("GMAIL_FETCH_EMAILS"), {}, {"query", "limit"})
list_email_gmail == Workflow("list_email_gmail",
    Reads("GMAIL_FETCH_EMAILS"), {}, {"query", "limit"})
search_email_gmail == Workflow("search_email_gmail",
    Reads("GMAIL_FETCH_EMAILS"), {"query"}, {"limit"})
list_meetings_google_calendar == Workflow("list_meetings_google_calendar",
    Reads("GOOGLECALENDAR_LIST_EVENTS"), {}, {"date_range"})
check_calendar_google_calendar == Workflow("check_calendar_google_calendar",
    Reads("GOOGLECALENDAR_LIST_EVENTS"), {}, {"date_range"})
create_document_google_docs == Workflow("create_document_google_docs",
    Direct("GOOGLEDOCS_CREATE_DOCUMENT_FROM_TEXT", {"content", "title"}),
    {"title", "content"}, {})
edit_document_google_docs == Workflow("edit_document_google_docs",
    Checked("GOOGLEDOCS_GET_DOCUMENT", {"document_id"},
    "GOOGLEDOCS_APPEND_TEXT", {"content", "document_id"}, {}), {"document_id",
    "content"}, {"action"})
upload_file_google_drive == Workflow("upload_file_google_drive",
    Direct("GOOGLEDRIVE_UPLOAD_FILE", {"file_path", "folder"}), {"file_path"},
    {"folder"})
download_file_google_drive == Workflow("download_file_google_drive",
    Reads("GOOGLEDRIVE_FIND_FILE"), {"file_name"}, {"query"})
search_files_google_drive == Workflow("search_files_google_drive",
    Reads("GOOGLEDRIVE_SEARCH_FILE"), {"query"}, {})
list_files_google_drive == Workflow("list_files_google_drive",
    Reads("GOOGLEDRIVE_LIST_FILES"), {}, {"folder", "limit"})
create_page_notion == Workflow("create_page_notion",
    Checked("NOTION_SEARCH_NOTION", {"title"}, "NOTION_CREATE_A_NEW_PAGE",
    {"content", "parent", "title"}, {}), {"title"}, {"content", "parent"})
create_task_notion == Workflow("create_task_notion",
    Checked("NOTION_SEARCH_NOTION", {"title"}, "NOTION_CREATE_A_NEW_PAGE",
    {"assignee", "due_date", "parent", "status", "title"}, {}), {"title"},
    {"status", "due_date", "assignee", "parent"})
search_notion == Workflow("search_notion",
    Reads("NOTION_SEARCH_NOTION"), {"query"}, {})
list_tasks_notion == Workflow("list_tasks_notion",
    Reads("NOTION_FETCH_DATABASE"), {"database_id"}, {"status"})
create_issue_github == Workflow("create_issue_github",
    Confirmed("GITHUB_ISSUES_CREATE", {"assignees", "body", "labels", "repo",
    "title"}), {"title", "repo"}, {"body", "labels", "assignees"})
list_issues_github == Workflow("list_issues_github",
    Reads("GITHUB_ISSUES_LIST"), {"repo"}, {"state", "labels"})
create_pr_github == Workflow("create_pr_github",
    Confirmed("GITHUB_PULLS_CREATE", {"base", "body", "head", "repo",
    "title"}), {"title", "repo", "head"}, {"body", "base"})
list_prs_github == Workflow("list_prs_github",
    Reads("GITHUB_PULLS_LIST"), {"repo"}, {"state"})
send_message_slack == Workflow("send_message_slack",
    Confirmed("SLACK_SENDS_A_MESSAGE_TO_A_SLACK_CHANNEL", {"channel",
    "message"}), {"channel", "message"}, {})
search_messages_slack == Workflow("search_messages_slack",
    Reads("SLACK_SEARCH_FOR_MESSAGES_IN_SLACK"), {"query"}, {"channel"})
list_channels_slack == Workflow("list_channels_slack",
    Reads("SLACK_LIST_ALL_SLACK_TEAM_CHANNELS"), {}, {"limit"})
send_email == Workflow("send_email",
    Confirmed("", {}), {"recipient", "subject", "body"}, {})
list_email == Workflow("list_email", Reads(""), {}, {"query", "limit"})
schedule_meeting == Workflow("schedule_meeting",
    Checked("", {}, "", {}, {}), {"attendee", "date_time", "title",
    "timezone"}, {"duration"})
list_meetings == Workflow("list_meetings", Reads(""), {}, {"date_range"})
create_task == Workflow("create_task",
    Checked("", {}, "", {}, {}), {"title"}, {"status", "due_date",
    "assignee"})
search_files == Workflow("search_files", Reads(""), {"query"}, {})

_WORKFLOWS ==
    <<send_email_gmail, schedule_meeting_google_calendar,
      create_event_google_calendar, draft_email_gmail, read_email_gmail,
      list_email_gmail, search_email_gmail, list_meetings_google_calendar,
      check_calendar_google_calendar, create_document_google_docs,
      edit_document_google_docs, upload_file_google_drive,
      download_file_google_drive, search_files_google_drive,
      list_files_google_drive, create_page_notion, create_task_notion,
      search_notion, list_tasks_notion, create_issue_github,
      list_issues_github, create_pr_github, list_prs_github,
      send_message_slack, search_messages_slack, list_channels_slack>>

_GENERIC_WORKFLOWS ==
    <<send_email, list_email, schedule_meeting, list_meetings, create_task,
      search_files>>

Registry == _WORKFLOWS \o _GENERIC_WORKFLOWS
=============================================================================
