--------------------------- MODULE MessageLayouts ---------------------------
(***************************************************************************)
(* What each message writes and reads, in order (swganh/messages): its     *)
(* OnSerialize and OnDeserialize, or the controllers' OnController...,     *)
(* which follow the header of an ObjControllerMessage; and the packets of  *)
(* a session.                                                              *)
(*                                                                         *)
(* An item is a member with its width; the member "-" is a constant that   *)
(* is written, or a value that is read and dropped.  One layout stands for *)
(* both sides when they agree, two when they do not.                       *)
(*                                                                         *)
(* Left out: ObjectMenuRequest, which nothing includes and no compiler     *)
(* would take, and the prose package of a system message.                  *)
(***************************************************************************)
EXTENDS Naturals, Sequences

CONSTANT SizeT      \* the bytes of a size_t where the server is built

ASSUME LayoutAssumption == SizeT \in {4, 8}

-----------------------------------------------------------------------------
(* Items *)

Member(width, m) == [kind |-> "number", width |-> width, of |-> <<m>>, order |-> "little"]
U8(m) == Member(1, m)
U16(m) == Member(2, m)
U32(m) == Member(4, m)
U64(m) == Member(8, m)
Float(m) == Member(4, m)
Big(item) == [item EXCEPT !.order = "big"]

\* A text: its length, then characters of one or two bytes.
Str(m) == [kind |-> "text", width |-> 2, character |-> 1, of |-> <<m>>]
Wide(m) == [kind |-> "text", width |-> 4, character |-> 2, of |-> <<m>>]

\* The number of elements, then each of them.  A size() written without a type has
\* the width of a size_t.
List(width, m, items) == <<[kind |-> "list", width |-> width, of |-> <<m>>, elements |-> items]>>
IfText(items) == <<[kind |-> "some", elements |-> items]>>

\* A size, with what is counted besides the body, and a body of that size.
Size(extra) == [kind |-> "size", width |-> 4, extra |-> extra]
Body(m) == [kind |-> "body", of |-> <<m>>]

\* Messages go to their handler by opcode, a controller's by message_type too.
UnequalMessage(opcode, written, read) ==
    [opcode |-> opcode, type |-> "", written |-> written, read |-> read]
Message(opcode, items) == UnequalMessage(opcode, items, items)

ObjControllerMessage == <<U32("controller_type"), U32("message_type"), U64("observable_id"),
    U32("tick_count")>>
UnequalController(type, written, read) ==
    [opcode |-> "80CE5E46", type |-> type, written |-> ObjControllerMessage \o written,
     read |-> ObjControllerMessage \o read]
Controller(type, items) == UnequalController(type, items, items)

-----------------------------------------------------------------------------
(* Messages *)

AbortTradeMessage == Message("9CA80F98", <<>>)
AcceptAuctionResponseMessage == Message("C58A446E", <<U64("item_id"), U32("error")>>)
AcceptTransactionMessage == Message("B131CA17", <<>>)
AddItemFailedMessage == Message("69D3E1D2", <<U64("item_id")>>)
AddItemMessage == Message("1E8D1356", <<U64("item_id")>>)
AppendCommentResponseMessage == Message("A04A3ECA", <<U32("message_flag"), U32("ticket_id")>>)
AttributeListMessage == Message("F3F12F2A", <<U64("object_id")>> \o
    List(4, "attributes", <<Str("name"), Wide("value")>>))
AuctionQueryHeadersMessage == Message("679E0D00", <<U32("region_flag"), U32("attempts_counter"),
    U32("window_type"), U8("subcategory"), U8("category1"), U8("category2"), U8("category3"),
    U32("item_type"), Wide("search_text"), U32("unknown"), U32("search_min_price"),
    U32("search_max_price"), U8("include_entrance_fee_flag"), U64("vendor_id"),
    U8("vendor_flag"), U16("first_auction_to_display")>>)
AuctionQueryHeadersResponseMessage == Message("FA500E52", <<U32("counter"),
    U32("vendor_screen_flag")>> \o List(4, "location_names", <<Str("")>>) \o
    List(4, "item_names", <<Wide("")>>) \o List(4, "item_info_list", <<U64("item_id"),
    U8("item_string_number"), U32("price1"), U32("expiration_time"), U32("auction_flag"),
    U16("location_index"), U64("seller_object_id"), U8("seller_pointer"),
    U64("buyer_object_id"), U8("buyer_pointer"), U32("unknown1"), U32("price2"),
    U32("item_type"), U32("unknown2"), U32("vendor_entrance_fee")>>) \o
    <<U16("item_list_start_offset"), U8("continuation_flag")>>)
BaselinesMessage == UnequalMessage("68A75F0C", <<U64("object_id"), U32("object_type"),
    U8("view_type"), Size(2), U16("object_opcount"), Body("data")>>, <<U32("object_id"),
    U32("object_type"), U32("view_type"), U16("object_opcount"), Size(0), Body("data")>>)
BeginTradeMessage == Message("325932D8", <<U64("target_id")>>)
BeginVerificationMessage == Message("E7491DF5", <<>>)
BidAuctionMessage == Message("91125453", <<U64("item_id"), U32("bid_price"),
    U32("price_proxy")>>)
BidAuctionResponseMessage == Message("C58A446E", <<U64("item_id"), U32("status_flag")>>)
CancelLiveAuctionResponseMessage == Message("7DA2246C", <<U64("item_id"), U32("error"),
    U8("unknown")>>)
CancelTicketResponseMessage == Message("D6FBF318", <<U32("message_flag"), U32("ticket_id")>>)
CharacterSheetResponseMessage == Message("9B3A17C4", <<U32("unknown1"), U32("unknown2"),
    Float("bind_location.x"), Float("bind_location.y"), Float("bind_location.z"),
    Str("bind_planet_name"), Float("bank_location.x"), Float("bank_location.y"),
    Float("bank_location.z"), Str("bank_planet_name"), Float("home_location.x"),
    Float("home_location.y"), Float("home_location.z"), Str("home_planet_name"),
    Wide("spouse_name"), U32("available_lots"), U32("faction_crc"), U32("faction_status")>>)
ChatCreateRoom == Message("35366BED", <<U8("public_flag"), U8("moderation_flag"),
    U16("unknown"), Str("channel_path"), Str("channel_name"), U32("attempts_counter")>>)
ChatDeletePersistentMessage == Message("8F251641", <<U32("mail_message_id")>>)
ChatDestroyRoom == Message("094B2A77", <<U32("channel_id"), U32("attempts_counter")>>)
ChatEnterRoomById == Message("BC6BDDF2", <<U32("attempts_counter"), U32("channel_id")>>)
ChatFriendsListUpdate == Message("6CD2FCD8", <<Str("game_name"), Str("server_name"),
    Str("friend_name"), U8("online_status_flag")>>)
ChatInstantMessageToCharacter == Message("84BB21F7", <<Str("game_name"), Str("server_name"),
    Str("recipient_character_name"), Wide("message"), U32("unknown"), U32("sequence_number")>>)
ChatInstantMessageToClient == Message("3C565CED", <<Str("game_name"), Str("server_name"),
    Str("sender_character_name"), Wide("message")>>)
ChatOnConnectAvatar == Message("D72FE9BE", <<>>)
ChatOnCreateRoom == Message("35D7CC9F", <<U32("error"), U32("channel_id"), U32("private_flag"),
    U8("moderation_flag"), Str("channel_path"), Str("game_name"), Str("server_name"),
    Str("channel_owner_name"), Str("game_name"), Str("server_name"),
    Str("channel_creator_name"), Wide("channel_name")>> \o
    List(4, "channel_moderators", <<Str("game_name"), Str("server_name"),
    Str("moderator_name")>>) \o List(4, "channel_users", <<Str("game_name"), Str("server_name"),
    Str("user_name")>>) \o <<U32("request_id")>>)
ChatOnDestroyRoom == Message("E8EC5877", <<Str("game_name"), Str("server_name"),
    Str("system_string"), U32("error"), U32("channel_id"), U32("request_id")>>)
ChatOnEnteredRoom == Message("E69BDC0A", <<Str("game_name"), Str("server_name"),
    Str("character_name"), U32("success_bitmask"), U32("channel_id"), U32("unknown")>>)
ChatOnLeaveRoom == Message("60B5098B", <<Str("game_name"), Str("server_name"),
    Str("character_name"), U32("error"), U32("channel_id"), U32("request_id")>>)
ChatOnReceiveRoomInvitation == Message("C17EB06D", <<Str("game_name"), Str("server_name"),
    Str("system_string"), Str("channel_name")>>)
ChatOnSendInstantMessage == Message("88DBB381", <<U32("success_flag"), U32("sequence_number")>>)
ChatOnSendPersistentMessage == Message("94E7A7AE", <<U32("success_flag"),
    U32("sequence_number")>>)
\* With the subject alone, request_type_flag 1, or with the body, 0; it is read as the flag says.
ChatPersistentMessageToClient(flag, contents) == [
    Message("08485E17", <<Str("sender_character_name"), Str("game_name"), Str("server_name"),
        U32("mail_message_id"), U8("request_type_flag")>> \o contents \o <<U8("status"),
        U32("timestamp"), U32("unknown")>>) EXCEPT !.type = flag]
ChatPersistentSubject ==
    ChatPersistentMessageToClient("1", <<U32("null_spacer"), Wide("mail_message_subject")>>)
ChatPersistentBody ==
    ChatPersistentMessageToClient("0", <<Wide("mail_message_body"), Wide("mail_message_subject")>>)
ChatPersistentMessageToServer == Message("25A29FA6", <<Wide("mail_message_body"),
    U32("chat_parameter_size"), U16("unknown1"), U8("chat_parameter_type"),
    U32("containment_type"), U32("unknown2"), Float("waypoint_coordinates.x"),
    Float("waypoint_coordinates.z"), Float("waypoint_coordinates.y"), U64("waypoint_object_id"),
    U32("waypoint_planet_crc"), Wide("waypoint_name"), U64("cell_id"), U8("color"),
    U8("active_flag"), U32("sequence_number"), Wide("mail_message_subject"), U32("spacer"),
    Str("recipient_name")>>)
ChatRemoveAvatarFromRoom == Message("493E3FFA", <<Str("game_name"), Str("server_name"),
    Str("character_name"), Str("channel_path")>>)
ChatRequestPersistentMessage == Message("07E3559F", <<U32("spacer"), U32("mail_message_id")>>)
ChatRequestRoomList == Message("4C3D2CFA", <<>>)
ChatRoomMessage == Message("CD4CE444", <<Str("game_name"), Str("server_name"),
    Str("sender_character_name"), U32("channel_id"), Wide("message"), Wide("out_of_band")>>)
ChatSendToRoom == Message("20E4DBE3", <<Str("sender_character_name"), Wide("message"),
    U32("spacer"), U32("channel_id"), U32("attempts_counter")>>)
\* Without a prose package; an empty message is not written at all.
ChatSystemMessage == UnequalMessage("6D2A6413", <<U8("display_type")>> \o
    IfText(<<Wide("message"), U32("-")>>) \o <<Wide("out_of_band")>>,
    <<U8("display_type"), Wide("message"), U32("-"), Wide("out_of_band")>>)
ClientCreateCharacter == UnequalMessage("B97F3074", <<Str("character_customization"),
    Wide("character_name"), Str("player_race_iff"), Str("start_location"), Str("hair_object"),
    Str("hair_customization"), Str("starting_profession"), U8("-"), Float("height"),
    Str("biography"), U8("tutorial_flag")>>, <<Str("character_customization"),
    Wide("character_name"), Str("player_race_iff"), Str("start_location"), Str("hair_object"),
    Str("hair_customization"), Str("starting_profession"), U8("ukn1"), Float("height"),
    Wide("biography"), U8("tutorial_flag")>>)
ClientCreateCharacterFailed == Message("DF333C6E", <<Wide("unk1"), Str("stf_file"), U32("-"),
    Str("error_string")>>)
ClientCreateCharacterSuccess == Message("1DB575CC", <<U64("character_id")>>)
ClientIdMsg == Message("D5899226", <<U32("-"), U32("-"), Str("session_hash")>>)
ClientInactivityMessage == Message("0F5D5325", <<U8("inactivity_flag")>>)
ClientMfdStatusUpdateMessage == Message("2D2D6EE1", <<Str("planet_name"), U64("object_id"),
    Float("object_location.x"), Float("object_location.y"), Float("object_location.z")>>)
ClientOpenContainerMessage == Message("DCA57409", <<U64("container_object_id"), U32("unknown1"),
    U32("unknown2")>>)
ClientPermissionsMessage == Message("E00730E5", <<U8("galaxy_available"),
    U8("available_character_slots"), U8("unlimited_characters")>>)
ClientRandomNameRequest == Message("D6D1B6D1", <<Str("player_race_iff")>>)
ClientRandomNameResponse == Message("E85FB868", <<Str("player_race_iff"), Wide("random_name"),
    Str("stf_file"), U32("-"), Str("approval_string")>>)
CloseHolocronMessage == Message("C0938A9D", <<>>)
CmdSceneReady == Message("43FD1C22", <<>>)
CmdStartScene == Message("3AE6DFAE", <<U8("ignore_layout"), U64("character_id"),
    Str("terrain_map"), Float("position.x"), Float("position.y"), Float("position.z"),
    Str("shared_race_template"), U64("galaxy_time")>>)
ConGenericMessage == Message("08C5FC76", <<Str("message"), U32("string_spacer")>>)
ConnectPlayerMessage == Message("2E365218", <<U32("unknown")>>)
ConnectPlayerResponseMessage == Message("6137556F", <<U32("unknown1"), U32("unknown2")>>)
ConnectionServerConnectionClosed == Message("3B882F0E", <<>>)
CreateAuctionMessage == Message("AD47021D", <<U64("item_id"), U64("bazaar_terminal_id"),
    U32("price"), U32("auction_duration_seconds"), Wide("item_description"),
    U8("premium_auction_flag")>>)
CreateAuctionResponseMessage == Message("0E61CC92", <<U64("unknown"), U32("response_type")>>)
CreateClientPathMessage == Message("71957628", List(4, "path_coordinates", <<Float("x"),
    Float("z"), Float("y")>>))
CreateImmediateAuctionMessage == Message("1E9CE308", <<U64("item_id"),
    U64("bazaar_terminal_id"), U32("price"), U32("auction_duration_seconds"),
    Wide("item_description"), U8("premium_auction_flag")>>)
CreateTicketResponseMessage == Message("550A407A", <<U32("message_flag"), U32("ticket_id")>>)
DeleteCharacterMessage == Message("E87AD031", <<U32("server_id"), U64("character_id")>>)
DeleteCharacterReplyMessage == Message("8268989B", <<U32("failure_flag")>>)
DeltasMessage == UnequalMessage("12862153", <<U64("object_id"), U32("object_type"),
    U8("view_type"), Size(4), U16("update_count"), U16("update_type"), Body("data")>>,
    <<U32("object_id"), U32("object_type"), U32("view_type"), Size(4), U16("update_type"),
    U16("update_count"), Body("data")>>)
DenyTradeMessage == Message("6EC28670", <<>>)
DestroyClientPathMessage == Message("A75E85EB", <<>>)
EnterStructurePlacementModeMessage == Message("E8A54DC1", <<U64("deed_id"),
    Str("object_file_path")>>)
EnterTicketPurchaseModeMessage == Message("904DAE1A", <<Str("planet_name"), Str("city_name")>>)
EnumerateCharacterId == Message("65EA4574", List(4, "characters", <<Wide("name"),
    U32("race_crc"), U64("character_id"), U32("galaxy_id"), U32("status")>>))
ErrorMessage == Message("B5ABF91A", <<Str("type"), Str("message"), U8("force_fatal")>>)
ExecuteConsoleCommand == Message("B1CFCE1C", <<Str("command")>>)
FactionRequestMessage == Message("C1B03B81", <<>>)
FactionResponseMessage == Message("5DD53957", <<Str("faction_rank"),
    U32("faction_points_rebel"), U32("faction_points_imperial"), U32("faction_points_hutt")>> \o
    List(4, "faction_names", <<Str("")>>) \o List(4, "faction_points_list", <<Float("")>>))
GameSceneChanged == Message("BBADAEB9", <<>>)
GetArticleResponseMessage == Message("934BAEE0", <<U32("article_text_flag"),
    Wide("article_text")>>)
GetAuctionDetails == Message("D36EFAE4", <<U64("item_id")>>)
GetAuctionDetailsResponse == Message("FE0E644B", <<U64("item_id")>> \o
    List(4, "auction_details", <<Str("descriptor"), Wide("description")>>))
GetMapLocationsRequestMessage == Message("1A7AB839", <<Str("planet_name"), U32("unknown1"),
    U32("unknown2"), U32("unknown3")>>)
GetMapLocationsResponseMessage == UnequalMessage("9F80464C", <<Str("planet_name")>> \o
    List(SizeT, "locations", <<U64("id"), Wide("name"), Float("x"), Float("y"),
    U8("type_displayAsCategory"), U8("type_displayAsSubcategory"), U8("type_displayAsActive")>>)
    \o List(SizeT, "blank_list1", <<U64("id"), Wide("name"), Float("x"), Float("y"),
    U8("type_displayAsCategory"), U8("type_displayAsSubcategory"), U8("type_displayAsActive")>>)
    \o List(SizeT, "blank_list2", <<U64("id"), Wide("name"), Float("x"), Float("y"),
    U8("type_displayAsCategory"), U8("type_displayAsSubcategory"),
    U8("type_displayAsActive")>>), <<Str("planet_name")>> \o List(4, "locations", <<U64("id"),
    Wide("name"), Float("x"), Float("y"), U8("type_displayAsCategory"),
    U8("type_displayAsSubcategory"), U8("type_displayAsActive")>>) \o
    List(4, "blank_list1", <<U64("id"), Wide("name"), Float("x"), Float("y"),
    U8("type_displayAsCategory"), U8("type_displayAsSubcategory"), U8("type_displayAsActive")>>)
    \o List(4, "blank_list2", <<U64("id"), Wide("name"), Float("x"), Float("y"),
    U8("type_displayAsCategory"), U8("type_displayAsSubcategory"),
    U8("type_displayAsActive")>>))
GiveMoneyMessage == Message("D1527EE8", <<U32("credit_amount")>>)
GuildRequestMessage == Message("81EB4EF7", <<U64("object_id")>>)
GuildResponseMessage == Message("32263F20", <<U64("guild_id"), Str("guild_name"),
    U16("unknown")>>)
HeartBeat == Message("A16CF9AF", <<>>)
ItemSoldMessage == Message("0E61CC92", <<U64("item_id"), U32("status_flag")>>)
LoginClientId == Message("41131F96", <<Str("username"), Str("password"),
    Str("client_version")>>)
\* What is read is as long as the key, from the start of the buffer.
LoginClientToken == UnequalMessage("AAB296C6", <<Size(0), Body("session_key"), U32("station_id"),
    Str("station_username")>>, <<Size(0), Body("the buffer's start"), U32("station_id"),
    Str("station_username")>>)
LoginClusterStatus == UnequalMessage("3436AEB6", List(4, "servers", <<U32("server_id"),
    Str("address"), U16("conn_port"), U16("ping_port"), U32("server_pop"), U32("max_pop"),
    U32("max_chars"), U32("distance"), U32("status"), U8("not_recommended_flag")>>),
    List(4, "servers", <<U32("server_id"), Str("address"), U16("conn_port"), U16("ping_port"),
    U32("server_pop"), U32("max_pop"), U32("distance"), U32("status"),
    U8("not_recommended_flag")>>))
\* The mutant writes the limit before the list.
LoginEnumCluster_Early == UnequalMessage("C11C63B9", <<U32("max_account_chars")>> \o List(4,
    "servers", <<U32("server_id"), Str("server_name"), U32("distance")>>), List(4, "servers",
    <<U32("server_id"), Str("server_name"), U32("distance")>>) \o <<U32("max_account_chars")>>)
LoginEnumCluster == Message("C11C63B9", List(4, "servers", <<U32("server_id"),
    Str("server_name"), U32("distance")>>) \o <<U32("max_account_chars")>>)
LogoutMessage == Message("42FD19DD", <<>>)
NewTicketActivityMessage == Message("274F4E78", <<U64("ticket_id")>>)
NewTicketActivityResponseMessage == Message("6EA42D80", <<U8("update_status"),
    U64("ticket_id")>>)
NewbieTutorialResponse == Message("CA88FBAD", <<Str("client_ready")>>)
OpenedContainerMessage == Message("2E11E4AB", <<U32("unknown1"), U64("container_object_id"),
    Str("container_slot")>>)
ParametersMessage == Message("487652DA", <<U32("parameter_flag")>>)
PlanetTravelPointListRequest == Message("96405D4D", <<U64("travel_terminal_id"),
    Str("planet_name")>>)
PlanetTravelPointListResponse == Message("4D32541F", <<Str("planet_name")>> \o
    List(4, "location_names", <<Str("")>>) \o List(4, "location_coordinates", <<Float("x"),
    Float("z"), Float("y")>>) \o List(4, "location_tax_rates", <<U32("")>>) \o
    List(4, "location_starport_flags", <<U8("")>>))
PlayClientEffectLocMessage == Message("02949E74", <<Str("client_effect_file"),
    Str("planet_name"), Float("location_coordinates.x"), Float("location_coordinates.z"),
    Float("location_coordinates.y"), U64("unknown1"), U32("unknown2")>>)
PlayClientEffectObjectMessage == Message("8855434A", <<Str("client_effect_file"),
    Str("auxiliary_string"), U64("object_id")>>)
PlayClientEventLocMessage == Message("0A4E222C", <<Str("client_effect_file"),
    Str("planet_name"), Float("location_coordinates.x"), Float("location_coordinates.z"),
    Float("location_coordinates.y"), U64("unknown1"), U32("unknown2")>>)
PlayMusicMessage == Message("04270D8A", <<Str("music_file"), U64("unknown1"), U32("unknown2"),
    U8("unknown3")>>)
PlayerMoneyRequest == Message("9D105AA1", <<>>)
PlayerMoneyResponse == Message("367E737E", <<U32("inventory_credit_amount"),
    U32("bank_credit_amount")>>)
RemoveItemMessage == Message("4417AF8B", <<U64("item_id")>>)
RequestCategoriesMessage == Message("F898E25F", <<Str("abbreviated_language_locale")>>)
ResourceListForSurveyMessage == Message("8A64B1D5", List(4, "resources", <<Str("name"),
    U64("object_id"), Str("type")>>) \o <<Str("resources_type"), U64("surveyor_object_id")>>)
RetrieveAuctionItemMessage == Message("12B0D449", <<U64("item_id"), U64("bazaar_terminal_id")>>)
RetrieveAuctionItemResponseMessage == Message("9499EF8C", <<U64("item_id"),
    U32("success_flag")>>)
SceneCreateObjectByCrc == Message("FE89DDEA", <<U64("object_id"), Float("orientation.x"),
    Float("orientation.y"), Float("orientation.z"), Float("orientation.w"), Float("position.x"),
    Float("position.y"), Float("position.z"), U32("object_crc"), U8("byte_flag")>>)
SceneDestroyObject == Message("4D45D504", <<U64("object_id"), U8("-")>>)
SceneEndBaselines == Message("2C436037", <<U64("object_id")>>)
SearchKnowledgebaseMessage == Message("962E8B9B", <<Wide("search_text")>>)
SelectCharacter == Message("B5098D76", <<U64("character_id")>>)
ServerTimeMessage == Message("2EBC3BD9", <<U64("galactic_time")>>)
ServerWeatherMessage == Message("486356EA", <<U32("weather_id"), Float("cloud_vector.x"),
    Float("cloud_vector.z"), Float("cloud_vector.y")>>)
StatMigrationTargetsMessage == Message("EFAC38C4", <<U32("health_points"),
    U32("strength_points"), U32("constitution_points"), U32("action_points"),
    U32("quickness_points"), U32("stamina_points"), U32("mind_points"), U32("focus_points"),
    U32("willpower_points"), U32("points_remaining")>>)
StomachRequestMessage == Message("B75DD5D7", <<>>)
SurveyMessage == UnequalMessage("877F79AC", List(SizeT, "resources", <<Float("x"), Float("z"),
    Float("y"), Float("percentage")>>), List(4, "resources", <<Float("x"), Float("z"),
    Float("y"), Float("percentage")>>))
TradeCompleteMessage == Message("C542038B", <<>>)
UnAcceptTransactionMessage == Message("E81E4382", <<>>)
UpdateCellPermissionMessage == Message("F612499C", <<U8("permission_flag"), U64("cell_id")>>)
UpdateContainmentMessage == Message("56CBDE9E", <<U64("object_id"), U64("container_id"),
    U32("containment_type")>>)
UpdatePostureMessage == Message("0BDE6B41", <<U8("posture_id"), U64("object_id")>>)
UpdatePvpStatusMessage == Message("08A1C126", <<U32("pvp_status"), U32("faction"),
    U64("object_id")>>)
\* Positions are written scaled, and read as they come.
UpdateTransformMessage == UnequalMessage("1B24F808", <<U64("object_id"), U16("position.x * 4"),
    U16("position.y * 4"), U16("position.z * 4"), U32("update_counter"), U8("-"), U8("heading")>>,
    <<U64("object_id"), U16("position.x"), U16("position.y"), U16("position.z"),
    U32("update_counter"), U8("posture_id"), U8("heading")>>)
UpdateTransformWithParentMessage == UnequalMessage("C867AB5A", <<U64("cell_id"), U64("object_id"),
    U16("position.x * 8"), U16("position.y * 8"), U16("position.z * 8"), U32("update_counter"),
    U8("-"), U8("heading")>>, <<U64("cell_id"), U64("object_id"), U16("position.x"),
    U16("position.y"), U16("position.z"), U32("update_counter"), U8("posture_id"),
    U8("heading")>>)
VerifyPlayerNameMessage == Message("BB8CAD45", <<Wide("name"), U32("attempts_counter"),
    U32("unknown")>>)
VerifyPlayerNameResponseMessage == Message("F4C498FD", <<U8("success_flag"),
    U32("attempts_counter")>>)
VerifyTradeMessage == Message("9AE247EE", <<>>)

-----------------------------------------------------------------------------
(* Controllers *)

AddBuff == Controller("229", <<U32("buff"), Float("duration")>>)
Animate == Controller("F2", <<U64("object_id"), U32("-"), Str("animation")>>)
BiographyUpdate == Controller("1DB", <<U64("owner_id"), Wide("biography")>>)
CombatActionMessage == UnequalController("CC", <<U32("action_crc"), U64("attacker_id"),
    U64("weapon_id"), U8("attacker_end_posture"), U8("trails_bit_flag"),
    U8("combat_special_move_effect")>> \o List(2, "defender_list", <<U32("-"),
    U64("defender_id"), U8("defender_end_posture"), U8("hit_type"),
    U8("defender_special_move_effect")>>), <<U32("action_crc"), U64("attacker_id"),
    U64("weapon_id"), U8("attacker_end_posture"), U8("trails_bit_flag"),
    U8("combat_special_move_effect")>> \o List(2, "defender_list", <<U64("defender_id"),
    U8("defender_end_posture"), U8("hit_type"), U8("defender_special_move_effect")>>))
CombatSpamMessage == Controller("134", <<U64("attacker_id"), U64("defender_id"),
    U64("weapon_id"), U32("damage"), Str("file"), U32("-"), Str("text"), U8("color_flag"),
    Wide("unicode_string")>>)
CommandQueueEnqueue == Controller("116", <<U32("action_counter"), U32("command_crc"),
    U64("target_id"), Wide("command_options")>>)
CommandQueueRemove == Controller("117", <<U32("action_counter"), Float("timer"), U32("error"),
    U32("action")>>)
DataTransform == Controller("71", <<U32("counter"), Float("orientation.x"),
    Float("orientation.y"), Float("orientation.z"), Float("orientation.w"), Float("position.x"),
    Float("position.y"), Float("position.z"), Float("speed")>>)
DataTransformWithParent == Controller("F1", <<U32("counter"), U64("cell_id"),
    Float("orientation.x"), Float("orientation.y"), Float("orientation.z"),
    Float("orientation.w"), Float("position.x"), Float("position.y"), Float("position.z"),
    Float("speed")>>)
EntertainerFlourish == UnequalController("166", <<U32("-"), U32("flourish_id"), U32("-"),
    U32("-")>>, <<U32("flourish_id")>>)
PlayerMatchResults == UnequalController("1E7", List(SizeT, "player_matches", <<U32("-"),
    U32("player_bitmask"), U32("-"), U32("-"), U32("-"), Wide("player_name"), U32("race_id"),
    Str("region_name"), Str("planet_name"), Str("guild_name"), Str("profession_title")>>),
    List(4, "player_matches", <<U32("-"), U32("player_bitmask"), U32("-"), U32("-"), U32("-"),
    Wide("player_name"), U32("race_id"), Str("region_name"), Str("planet_name"),
    Str("guild_name"), Str("profession_title")>>))
Posture == UnequalController("131", <<U8("posture_id"), U8("-")>>, <<U8("posture_id")>>)
RemoveBuff == Controller("22A", <<U32("buff")>>)
SecureTrade == Controller("115", <<U32("error"), U64("trader_id"), U64("target_id")>>)
ShowFlyText == Controller("1BD", <<U64("object_id"), Str("stf_location"), U32("-"), Str("text"),
    U32("-"), U8("red"), U8("green"), U8("blue"), U8("display_flag")>>)
SitOnObject == Controller("13B", <<U64("cell_id"), Float("coord_x"), Float("coord_z"),
    Float("coord_y")>>)
SpatialChat == Controller("F4", <<U64("speaker_id"), U64("target_id"), Wide("message"),
    U16("font_size"), U16("chat_type"), U16("mood"), U8("whisper_target_animate"),
    U8("language"), U32("prose"), U32("unknown1")>>)
SpatialEmote == Controller("12E", <<U64("source_id"), U64("target_id"), U32("emote_id"),
    U8("emote_flags")>>)
StartNPCConversation == UnequalController("DD", <<U64("npc_id"), U32("-"), U16("-"), U8("-")>>,
    <<U64("npc_id")>>)
StartingLocation == UnequalController("1FC",
    List(SizeT, "starting_locations", <<Str("starting_name"), Str("planet_name"), Float("-"),
    Float("-"), U32("-"), Str("image_style"), U32("-"), U8("route_open")>>),
    List(4, "starting_locations", <<Str("starting_name"), Str("planet_name"), Float("x"),
    Float("y"), Str("-"), Str("image_style"), Str("-"), U8("route_open")>>))
StopNPCConversation == UnequalController("DE", <<U64("npc_id"), U32("-"), U16("-"), U8("-")>>,
    <<U64("npc_id")>>)
WatchEntertainer == UnequalController("22B", <<U64("entertainer_id"), U32("-")>>,
    <<U64("entertainer_id")>>)

-----------------------------------------------------------------------------
(* Packets of a session (anh/network/soe/protocol_packets.h), after their opcode.  *)
(* Those that carry others, or data, are in SoeSession.                            *)

UnequalPacket(opcode, written, read) == UnequalMessage(opcode, written, read)
Packet(opcode, items) == UnequalPacket(opcode, items, items)

SessionRequest == Packet("SESSION_REQUEST", <<Big(U32("crc_length")), Big(U32("connection_id")),
    Big(U32("client_udp_buffer_size"))>>)
SessionResponse == UnequalPacket("SESSION_RESPONSE", <<Big(U32("connection_id")),
    Big(U32("crc_seed")), U8("crc_length"), U8("encryption_type"), U8("-"),
    Big(U32("server_udp_buffer_size"))>>, <<U32("connection_id"), Big(U32("crc_seed")),
    U8("crc_length"), U8("encryption_type"), U8("-"), Big(U32("server_udp_buffer_size"))>>)
Disconnect == Packet("DISCONNECT", <<Big(U32("connection_id")), Big(U16("reason_id"))>>)
Ping == Packet("PING", <<>>)
NetStatsClient == Packet("NET_STATS_CLIENT", <<Big(U16("client_tick_count")),
    Big(U32("last_update")), Big(U32("average_update")), Big(U32("shortest_update")),
    Big(U32("longest_update")), Big(U64("packets_sent")), Big(U64("packets_received"))>>)
NetStatsServer == Packet("NET_STATS_SERVER", <<Big(U16("client_tick_count")),
    Big(U32("server_tick_count")), Big(U64("client_packets_sent")),
    Big(U64("client_packets_received")), Big(U64("server_packets_sent")),
    Big(U64("server_packets_received"))>>)
OutOfOrderA == Packet("OUT_OF_ORDER_A", <<Big(U16("sequence"))>>)
AckA == Packet("ACK_A", <<Big(U16("sequence"))>>)

-----------------------------------------------------------------------------

Messages ==
    {AbortTradeMessage, AcceptAuctionResponseMessage, AcceptTransactionMessage,
    AddItemFailedMessage, AddItemMessage, AppendCommentResponseMessage,
    AttributeListMessage, AuctionQueryHeadersMessage, AuctionQueryHeadersResponseMessage,
    BaselinesMessage, BeginTradeMessage, BeginVerificationMessage, BidAuctionMessage,
    BidAuctionResponseMessage, CancelLiveAuctionResponseMessage,
    CancelTicketResponseMessage, CharacterSheetResponseMessage, ChatCreateRoom,
    ChatDeletePersistentMessage, ChatDestroyRoom, ChatEnterRoomById, ChatFriendsListUpdate,
    ChatInstantMessageToCharacter, ChatInstantMessageToClient, ChatOnConnectAvatar,
    ChatOnCreateRoom, ChatOnDestroyRoom, ChatOnEnteredRoom, ChatOnLeaveRoom,
    ChatOnReceiveRoomInvitation, ChatOnSendInstantMessage, ChatOnSendPersistentMessage,
    ChatPersistentBody, ChatPersistentMessageToServer, ChatPersistentSubject,
    ChatRemoveAvatarFromRoom, ChatRequestPersistentMessage, ChatRequestRoomList,
    ChatRoomMessage, ChatSendToRoom, ChatSystemMessage, ClientCreateCharacter,
    ClientCreateCharacterFailed, ClientCreateCharacterSuccess, ClientIdMsg,
    ClientInactivityMessage, ClientMfdStatusUpdateMessage, ClientOpenContainerMessage,
    ClientPermissionsMessage, ClientRandomNameRequest, ClientRandomNameResponse,
    CloseHolocronMessage, CmdSceneReady, CmdStartScene, ConGenericMessage,
    ConnectPlayerMessage, ConnectPlayerResponseMessage, ConnectionServerConnectionClosed,
    CreateAuctionMessage, CreateAuctionResponseMessage, CreateClientPathMessage,
    CreateImmediateAuctionMessage, CreateTicketResponseMessage, DeleteCharacterMessage,
    DeleteCharacterReplyMessage, DeltasMessage, DenyTradeMessage, DestroyClientPathMessage,
    EnterStructurePlacementModeMessage, EnterTicketPurchaseModeMessage,
    EnumerateCharacterId, ErrorMessage, ExecuteConsoleCommand, FactionRequestMessage,
    FactionResponseMessage, GameSceneChanged, GetArticleResponseMessage, GetAuctionDetails,
    GetAuctionDetailsResponse, GetMapLocationsRequestMessage,
    GetMapLocationsResponseMessage, GiveMoneyMessage, GuildRequestMessage,
    GuildResponseMessage, HeartBeat, ItemSoldMessage, LoginClientId, LoginClientToken,
    LoginClusterStatus, LoginEnumCluster, LogoutMessage, NewTicketActivityMessage,
    NewTicketActivityResponseMessage, NewbieTutorialResponse, OpenedContainerMessage,
    ParametersMessage, PlanetTravelPointListRequest, PlanetTravelPointListResponse,
    PlayClientEffectLocMessage, PlayClientEffectObjectMessage, PlayClientEventLocMessage,
    PlayMusicMessage, PlayerMoneyRequest, PlayerMoneyResponse, RemoveItemMessage,
    RequestCategoriesMessage, ResourceListForSurveyMessage, RetrieveAuctionItemMessage,
    RetrieveAuctionItemResponseMessage, SceneCreateObjectByCrc, SceneDestroyObject,
    SceneEndBaselines, SearchKnowledgebaseMessage, SelectCharacter, ServerTimeMessage,
    ServerWeatherMessage, StatMigrationTargetsMessage, StomachRequestMessage, SurveyMessage,
    TradeCompleteMessage, UnAcceptTransactionMessage, UpdateCellPermissionMessage,
    UpdateContainmentMessage, UpdatePostureMessage, UpdatePvpStatusMessage,
    UpdateTransformMessage, UpdateTransformWithParentMessage, VerifyPlayerNameMessage,
    VerifyPlayerNameResponseMessage, VerifyTradeMessage}
Controllers ==
    {AddBuff, Animate, BiographyUpdate, CombatActionMessage, CombatSpamMessage,
    CommandQueueEnqueue, CommandQueueRemove, DataTransform, DataTransformWithParent,
    EntertainerFlourish, PlayerMatchResults, Posture, RemoveBuff, SecureTrade, ShowFlyText,
    SitOnObject, SpatialChat, SpatialEmote, StartNPCConversation, StartingLocation,
    StopNPCConversation, WatchEntertainer}
Packets ==
    {SessionRequest, SessionResponse, Disconnect, Ping, NetStatsClient, NetStatsServer,
    OutOfOrderA, AckA}
Layouts == Messages \cup Controllers \cup Packets
=============================================================================
