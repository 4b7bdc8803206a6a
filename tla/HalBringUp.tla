----------------------------- MODULE HalBringUp ------------------------------
(***************************************************************************)
(* The hardware abstraction layer of the Linux driver (ena_com.c): what    *)
(* its functions allocate, tell the device and free.  See Steps.           *)
(***************************************************************************)
EXTENDS Steps, TLC

\* The register read mailbox.  Reading a register needs it.
ena_com_mmio_reg_read_request_init == Simple(Get("mmio_read", Return))
ena_com_mmio_reg_read_request_destroy == Simple(Put("mmio_read"))
ena_com_reg_bar_read32 == Simple(Use("mmio_read", Return))
wait_for_reset_state == Simple(Call("ena_com_reg_bar_read32", Return) \o Try(Return))
ena_com_validate_version ==
    Simple(Call("ena_com_reg_bar_read32", Return) \o Try(Return))
ena_com_get_dma_width ==
    Simple(Call("ena_com_reg_bar_read32", Return) \o Try(Return))

\* A reset makes the device forget all memory it was told of.  One that does not
\* even answer a reset is dead, and uses none of it either.
ena_com_dev_reset == Simple(
    Wipe \o
    Call("ena_com_reg_bar_read32", Return) \o
    Try(Return) \o
    Call("wait_for_reset_state", Return) \o
    Call("wait_for_reset_state", Return))

\* The admin queue.
ena_com_init_comp_ctxt == Simple(Get("comp_ctx", Return))
ena_com_admin_init_sq == Simple(Get("admin_sq", Return))
ena_com_admin_init_cq == Simple(Get("admin_cq", Return))
ena_com_admin_init_aenq == Simple(Get("aenq", Return))
ena_com_admin_init == Fn(
    Call("ena_com_reg_bar_read32", Return) \o
    Try(Return) \o
    Call("ena_com_init_comp_ctxt", "error") \o
    Call("ena_com_admin_init_sq", "error") \o
    Call("ena_com_admin_init_cq", "error") \o
    Call("ena_com_admin_init_aenq", "error") \o
    Set("aq_on_device") \o Set("ADMIN_RUNNING"),
    Label("error", Best("ena_com_admin_destroy")))
ena_com_free_ena_admin_queue_comp_ctx == Simple(PutIfHeld("comp_ctx"))
ena_com_admin_destroy == Simple(
    Best("ena_com_free_ena_admin_queue_comp_ctx") \o
    PutIfHeld("admin_sq") \o PutIfHeld("admin_cq") \o PutIfHeld("aenq"))
ena_com_set_admin_running_state == Simple(Clear("ADMIN_RUNNING"))
ena_com_abort_admin_commands ==
    Simple(If(Held("comp_ctx"), Touch("comp_ctx")))
\* From here on the device writes events.
ena_com_admin_aenq_enable == Simple(Set("aenq_armed"))

\* Features of the device.
ena_com_get_feature_ex == Simple(Lacks(Return) \o Try(Return) \o Cmd(Return))
ena_com_get_dev_attr_feat == Simple(
    Cmd(Return) \o
    Call("ena_com_get_feature_ex", Return) \o
    CallIfAble("ena_com_get_feature_ex", Return))
ena_com_set_aenq_config == Simple(
    Call("ena_com_get_feature_ex", Return) \o Lacks(Return) \o Cmd(Return))
ena_com_set_llq == Simple(Cmd(Return))
ena_com_config_dev_mode == Simple(Try(Return) \o Call("ena_com_set_llq", Return))
ena_com_get_hw_timestamping_support == Simple(
    Lacks(Return) \o Call("ena_com_get_feature_ex", Return))
ena_com_set_hw_timestamping_configuration == Simple(Lacks(Return) \o Cmd(Return))
ena_com_init_interrupt_moderation ==
    Simple(CallIfAble("ena_com_get_feature_ex", Return))

\* One I/O queue: memory on the host, then the queues on the device.
ena_com_init_io_sq == Simple(Get("io_sq_mem", Return))
ena_com_init_io_cq == Simple(Get("io_cq_mem", Return))
ena_com_create_io_cq == Simple(Try(Return) \o Cmd(Return) \o Have("device_cq"))
ena_com_create_io_sq == Simple(Try(Return) \o Cmd(Return) \o Have("device_sq"))
ena_com_create_io_queue == Fn(
    Call("ena_com_init_io_sq", "error") \o
    Call("ena_com_init_io_cq", "error") \o
    Call("ena_com_create_io_cq", "error") \o
    Call("ena_com_create_io_sq", "destroy_io_cq"),
    Label("destroy_io_cq", Best("ena_com_destroy_io_cq")) \o
    Label("error", Best("ena_com_io_queue_free")))
\* The device answers a destroy command unless the queue was shut.
ena_com_destroy_io_sq == Simple(If(Held("ADMIN_RUNNING"), PutIfHeld("device_sq")))
ena_com_destroy_io_cq == Simple(If(Held("ADMIN_RUNNING"), PutIfHeld("device_cq")))
ena_com_io_queue_free == Simple(PutIfHeld("io_cq_mem") \o PutIfHeld("io_sq_mem"))
\* Mutant: frees the memory before the device has let go of it.
ena_com_destroy_io_queueFreesFirst == Simple(
    Best("ena_com_io_queue_free") \o
    Best("ena_com_destroy_io_sq") \o
    Best("ena_com_destroy_io_cq"))
ena_com_destroy_io_queue == Simple(
    Best("ena_com_destroy_io_sq") \o
    Best("ena_com_destroy_io_cq") \o
    Best("ena_com_io_queue_free"))

\* Receive side scaling.  Whether the device offers it is asked each time.
ena_com_indirect_table_allocate == Fn(
    Clear("rss_offered") \o
    Call("ena_com_get_feature_ex", Return) \o
    Set("rss_offered") \o
    Try(Return) \o
    Get("rss_ind_tbl", "mem_err1") \o
    Get("host_rss_ind_tbl", "mem_err2"),
    Label("mem_err2", Put("rss_ind_tbl")))
ena_com_indirect_table_destroy ==
    Simple(PutIfHeld("rss_ind_tbl") \o PutIfHeld("host_rss_ind_tbl"))
ena_com_hash_key_allocate == Simple(
    Clear("key_offered") \o Lacks(Return) \o Set("key_offered") \o
    Get("hash_key", Return))
ena_com_hash_key_destroy == Simple(PutIfHeld("hash_key"))
ena_com_hash_ctrl_init == Simple(Get("hash_ctrl", Return))
ena_com_hash_ctrl_destroy == Simple(PutIfHeld("hash_ctrl"))
\* Mutant: the last error label is missing its first step.
ena_com_rss_initKeepsKey == Fn(
    Call("ena_com_indirect_table_allocate", "err_indr_tbl") \o
    CallIfAble("ena_com_hash_key_allocate", "err_hash_key") \o
    Call("ena_com_hash_ctrl_init", "err_hash_key"),
    Label("err_hash_key", Best("ena_com_indirect_table_destroy")))
ena_com_rss_init == Fn(
    Call("ena_com_indirect_table_allocate", "err_indr_tbl") \o
    CallIfAble("ena_com_hash_key_allocate", "err_hash_key") \o
    Call("ena_com_hash_ctrl_init", "err_hash_ctrl"),
    Label("err_hash_ctrl", Best("ena_com_hash_key_destroy")) \o
    Label("err_hash_key", Best("ena_com_indirect_table_destroy")))
ena_com_rss_destroy == Simple(
    Best("ena_com_indirect_table_destroy") \o
    Best("ena_com_hash_key_destroy") \o
    Best("ena_com_hash_ctrl_destroy"))

\* Its configuration.  A device that had no table to offer has none to set.
ena_com_indirect_table_fill_entry == Simple(Try(Return) \o Touch("host_rss_ind_tbl"))
ena_com_indirect_table_get == Simple(
    Touch("rss_ind_tbl") \o
    Call("ena_com_get_feature_ex", Return) \o
    If(Maybe, Touch("host_rss_ind_tbl")))
ena_com_indirect_table_set == Simple(
    If(Free("rss_ind_tbl"), Deny(Return)) \o
    Lacks(Return) \o
    Touch("host_rss_ind_tbl") \o Touch("rss_ind_tbl") \o
    Try(Return) \o
    Cmd(Return))
ena_com_set_hash_function == Simple(
    Lacks(Return) \o
    Call("ena_com_get_feature_ex", Return) \o
    Lacks(Return) \o
    Try(Return) \o
    Cmd(Return))
ena_com_fill_hash_function == Simple(
    Try(Return) \o
    If(Free("key_offered"), Deny(Return)) \o
    Touch("hash_key") \o
    Call("ena_com_get_feature_ex", Return) \o
    Lacks(Return) \o
    If(Maybe, Try(Return) \o Touch("hash_key")) \o
    Call("ena_com_set_hash_function", Return))
ena_com_get_hash_function == Simple(
    If(Free("key_offered"), Deny(Return)) \o
    Touch("hash_key") \o Call("ena_com_get_feature_ex", Return))
ena_com_get_hash_key == Simple(Touch("hash_key"))
\* A device that hashes what it is told to also offers a table.
ena_com_get_hash_ctrl == Simple(
    If(Free("rss_offered"), Deny(Return)) \o
    Touch("hash_ctrl") \o Call("ena_com_get_feature_ex", Return))
ena_com_set_hash_ctrl == Simple(
    If(Free("hash_ctrl"), Deny(Return)) \o
    Lacks(Return) \o Touch("hash_ctrl") \o Try(Return) \o Cmd(Return))
ena_com_fill_hash_ctrl == Fn(
    Try(Return) \o
    Call("ena_com_get_hash_ctrl", Return) \o
    Touch("hash_ctrl") \o
    Call("ena_com_set_hash_ctrl", "restore"),
    Label("restore", Best("ena_com_get_hash_ctrl")) \o Leave)
ena_com_set_default_hash_ctrl == Fn(
    Call("ena_com_get_hash_ctrl", Return) \o
    Lacks(Return) \o
    Call("ena_com_set_hash_ctrl", "restore"),
    Label("restore", Best("ena_com_get_hash_ctrl")))
ena_com_set_dev_mtu == Simple(Lacks(Return) \o Cmd(Return))

\* Flow steering; its destroy leaves the pointers as they are.  "rule" is an entry
\* of the table in use, "device_rule" what the device knows of it.
ena_com_flow_steering_init == Fn(
    Clear("flow_steering_tbl_set") \o Clear("requested_rule_set") \o
    Clear("tbl_size") \o
    Lacks(Return) \o
    Set("tbl_size") \o
    Get("flow_steering_tbl", Return) \o Set("flow_steering_tbl_set") \o
    Get("requested_rule", "err") \o Set("requested_rule_set"),
    Label("err", Best("ena_com_flow_steering_destroy")))
ena_com_flow_steering_destroy == Simple(
    If(Held("requested_rule_set"), Put("requested_rule")) \o
    If(Held("flow_steering_tbl_set"), PutIfHeld("rule") \o Put("flow_steering_tbl")))
ena_com_flow_steering_add_rule == Simple(
    If(Free("tbl_size"), Deny(Return)) \o
    If(Held("rule"), Raise(Return)) \o
    Touch("flow_steering_tbl") \o Touch("requested_rule") \o
    Try(Return) \o
    Cmd(Return) \o
    Have("device_rule") \o Have("rule"))
ena_com_flow_steering_remove_rule == Simple(
    If(Free("tbl_size"), Deny(Return)) \o
    If(Free("rule"), Raise(Return)) \o
    Touch("flow_steering_tbl") \o
    Cmd(Return) \o
    Put("device_rule") \o Put("rule"))
ena_com_flow_steering_get_rule == Simple(
    If(Free("tbl_size"), Deny(Return)) \o
    If(Free("rule"), Raise(Return)) \o
    Touch("flow_steering_tbl"))
\* After a reset; a rule the device then refuses is lost.
ena_com_flow_steering_restore_device_rules == Simple(
    If(Free("rule"), Leave) \o
    Touch("flow_steering_tbl") \o
    Put("rule") \o
    Call("ena_com_flow_steering_add_rule", Return))

\* Memory the device is told of.
ena_com_allocate_host_info == Simple(Get("host_info", Return))
ena_com_delete_host_info == Simple(PutIfHeld("host_info"))
ena_com_allocate_debug_area == Simple(Get("debug_area", Return))
ena_com_delete_debug_area == Simple(PutIfHeld("debug_area"))
ena_com_allocate_customer_metrics_buffer == Simple(Get("customer_metrics", Return))
ena_com_delete_customer_metrics_buffer == Simple(PutIfHeld("customer_metrics"))
ena_com_set_host_attributes == Simple(Try(Return) \o Cmd(Return))

\* The hardware clock.
ena_com_phc_init == Simple(Get("phc_mem", Return))
ena_com_phc_config == Simple(
    Call("ena_com_get_feature_ex", Return) \o
    Lacks(Return) \o
    Cmd(Return))
ena_com_phc_destroy == Simple(PutIfHeld("phc_mem"))

\* What rests on what.
HalBase ==
    [device_sq |-> {{"io_sq_mem"}}, device_cq |-> {{"io_cq_mem"}},
     aenq_armed |-> {{"aenq"}}]
HalOnDevice == {"device_sq", "device_cq", "device_rule", "aenq_armed", "aq_on_device"}
HalAccepts == {"ADMIN_RUNNING", "aq_on_device", "comp_ctx"}
HalFlags == {"ADMIN_RUNNING", "aq_on_device", "flow_steering_tbl_set", "requested_rule_set",
             "tbl_size", "rss_offered", "key_offered"}
HalCode ==
    [ena_com_mmio_reg_read_request_init |-> ena_com_mmio_reg_read_request_init,
     ena_com_mmio_reg_read_request_destroy |-> ena_com_mmio_reg_read_request_destroy,
     ena_com_reg_bar_read32 |-> ena_com_reg_bar_read32,
     wait_for_reset_state |-> wait_for_reset_state,
     ena_com_validate_version |-> ena_com_validate_version,
     ena_com_get_dma_width |-> ena_com_get_dma_width, ena_com_dev_reset |-> ena_com_dev_reset,
     ena_com_init_comp_ctxt |-> ena_com_init_comp_ctxt,
     ena_com_admin_init_sq |-> ena_com_admin_init_sq,
     ena_com_admin_init_cq |-> ena_com_admin_init_cq,
     ena_com_admin_init_aenq |-> ena_com_admin_init_aenq,
     ena_com_admin_init |-> ena_com_admin_init,
     ena_com_free_ena_admin_queue_comp_ctx |-> ena_com_free_ena_admin_queue_comp_ctx,
     ena_com_admin_destroy |-> ena_com_admin_destroy,
     ena_com_set_admin_running_state |-> ena_com_set_admin_running_state,
     ena_com_abort_admin_commands |-> ena_com_abort_admin_commands,
     ena_com_admin_aenq_enable |-> ena_com_admin_aenq_enable,
     ena_com_get_feature_ex |-> ena_com_get_feature_ex,
     ena_com_get_dev_attr_feat |-> ena_com_get_dev_attr_feat,
     ena_com_set_aenq_config |-> ena_com_set_aenq_config, ena_com_set_llq |-> ena_com_set_llq,
     ena_com_config_dev_mode |-> ena_com_config_dev_mode,
     ena_com_get_hw_timestamping_support |-> ena_com_get_hw_timestamping_support,
     ena_com_set_hw_timestamping_configuration |-> ena_com_set_hw_timestamping_configuration,
     ena_com_init_interrupt_moderation |-> ena_com_init_interrupt_moderation,
     ena_com_init_io_sq |-> ena_com_init_io_sq, ena_com_init_io_cq |-> ena_com_init_io_cq,
     ena_com_create_io_cq |-> ena_com_create_io_cq,
     ena_com_create_io_sq |-> ena_com_create_io_sq,
     ena_com_create_io_queue |-> ena_com_create_io_queue,
     ena_com_destroy_io_sq |-> ena_com_destroy_io_sq,
     ena_com_destroy_io_cq |-> ena_com_destroy_io_cq,
     ena_com_io_queue_free |-> ena_com_io_queue_free,
     ena_com_destroy_io_queue |-> ena_com_destroy_io_queue,
     ena_com_indirect_table_allocate |-> ena_com_indirect_table_allocate,
     ena_com_indirect_table_destroy |-> ena_com_indirect_table_destroy,
     ena_com_hash_key_allocate |-> ena_com_hash_key_allocate,
     ena_com_hash_key_destroy |-> ena_com_hash_key_destroy,
     ena_com_hash_ctrl_init |-> ena_com_hash_ctrl_init,
     ena_com_hash_ctrl_destroy |-> ena_com_hash_ctrl_destroy,
     ena_com_rss_init |-> ena_com_rss_init, ena_com_rss_destroy |-> ena_com_rss_destroy,
     ena_com_indirect_table_set |-> ena_com_indirect_table_set,
     ena_com_indirect_table_fill_entry |-> ena_com_indirect_table_fill_entry,
     ena_com_indirect_table_get |-> ena_com_indirect_table_get,
     ena_com_get_hash_function |-> ena_com_get_hash_function,
     ena_com_get_hash_key |-> ena_com_get_hash_key,
     ena_com_set_hash_function |-> ena_com_set_hash_function,
     ena_com_fill_hash_function |-> ena_com_fill_hash_function,
     ena_com_get_hash_ctrl |-> ena_com_get_hash_ctrl,
     ena_com_set_hash_ctrl |-> ena_com_set_hash_ctrl,
     ena_com_fill_hash_ctrl |-> ena_com_fill_hash_ctrl,
     ena_com_set_default_hash_ctrl |-> ena_com_set_default_hash_ctrl,
     ena_com_set_dev_mtu |-> ena_com_set_dev_mtu,
     ena_com_flow_steering_init |-> ena_com_flow_steering_init,
     ena_com_flow_steering_destroy |-> ena_com_flow_steering_destroy,
     ena_com_flow_steering_add_rule |-> ena_com_flow_steering_add_rule,
     ena_com_flow_steering_remove_rule |-> ena_com_flow_steering_remove_rule,
     ena_com_flow_steering_get_rule |-> ena_com_flow_steering_get_rule,
     ena_com_flow_steering_restore_device_rules |-> ena_com_flow_steering_restore_device_rules,
     ena_com_allocate_host_info |-> ena_com_allocate_host_info,
     ena_com_delete_host_info |-> ena_com_delete_host_info,
     ena_com_allocate_debug_area |-> ena_com_allocate_debug_area,
     ena_com_delete_debug_area |-> ena_com_delete_debug_area,
     ena_com_allocate_customer_metrics_buffer |-> ena_com_allocate_customer_metrics_buffer,
     ena_com_delete_customer_metrics_buffer |-> ena_com_delete_customer_metrics_buffer,
     ena_com_set_host_attributes |-> ena_com_set_host_attributes,
     ena_com_phc_init |-> ena_com_phc_init, ena_com_phc_config |-> ena_com_phc_config,
     ena_com_phc_destroy |-> ena_com_phc_destroy]
=============================================================================
